---- MODULE Spec2Model ----
(***************************************************************************)
(* Model of the UI subsystem of Urho3D (Source/Urho3D/UI/UI.cpp): the      *)
(* element tree with its normal and modal roots, hit-testing, focus,       *)
(* modal relocation, and the pointer/touch event router with its drag      *)
(* registry and double-click detection.                                    *)
(*                                                                         *)
(* Elements are named by strings.  Positions are pairs <<x, y>> of a       *)
(* small pixel grid.  Button sets (MouseButtonFlags) are sets of bit       *)
(* indices: bit 0 is MOUSEB_LEFT and touch id 0, bit 1 is MOUSEB_MIDDLE    *)
(* and touch id 1.  Time is counted in milliseconds and advances in steps  *)
(* of TickMSec.                                                            *)
(***************************************************************************)
EXTENDS Integers, Sequences, FiniteSets, TLC

VARIABLES
    alive,              \* element -> the object still exists (WeakPtr not expired)
    enabled,            \* element -> UIElement::IsEnabled()
    visible,            \* element -> UIElement::IsVisible()
    parent,             \* node -> its parent node, or Null
    children,           \* node -> sequence of its children (UIElement::children_)
    vars,               \* element -> its tag store (UIElement::vars_), the four UI keys
    focusElement,       \* UI::focusElement_
    dragElements,       \* UI::dragElements_, in insertion (iteration) order
    dragElementsCount,  \* UI::dragElementsCount_
    dragConfirmedCount, \* UI::dragConfirmedCount_
    dragElementsConfirmed, \* UI::dragElementsConfirmed_, the cached result of GetDragElements
    doubleClick,        \* doubleClickElement_, doubleClickFirstPos_, clickTimer_, lastMouseButtons_
    hoveredElements,    \* UI::hoveredElements_, its keys (every flag is true between frames)
    input,              \* mouseButtons_, usingTouchInput_, and the Input subsystem's cursor state
    crashed,            \* the process ended abnormally (null dereference)
    fired,              \* callbacks and events delivered by the last handler, in order
    lastOp,             \* the last operation, its arguments and what it saw on entry
    history,            \* bookkeeping over several operations (gesture counters, snapshots)
    image,              \* element -> BorderImage::blendMode_, texture_, material_ and opacity
    batches,            \* UI::batches_
    vertexData,         \* UI::vertexData_, per quad the element that wrote it
    nonModalBatchSize,  \* UI::nonModalBatchSize_
    uiBatch,            \* a UIBatch under construction: element_, color_, useGradient_, range
    renderToTexture     \* UI::renderToTexture_: per surface rootElement_, batches_, vertexData_

vars_all == <<alive, enabled, visible, parent, children, vars, focusElement,
              dragElements, dragElementsCount, dragConfirmedCount, dragElementsConfirmed, doubleClick,
              hoveredElements, input, crashed, fired, lastOp, history,
              image, batches, vertexData, nonModalBatchSize, uiBatch,
              renderToTexture>>

treeVars   == <<parent, children, vars>>
flagVars   == <<alive, enabled, visible>>
renderVars == <<batches, vertexData, nonModalBatchSize, uiBatch, renderToTexture>>
routerVars == <<dragElements, dragElementsCount, dragConfirmedCount, dragElementsConfirmed, doubleClick,
                hoveredElements, input, crashed>>

----------------------------------------------------------------------------
(* The element universe and the scene.                                     *)

Null      == "null"
Root      == "root"         \* UI::rootElement_
ModalRoot == "modalRoot"    \* UI::rootModalElement_
Elems     == {"A", "B", "W", "P", "C", "D", "R", "L", "H", "K"}
\* the elements of the application's scene; C is a Cursor and D its child; R is a
\* child of the window W; L and H are panels that reach past the root's right
\* edge, H of a higher priority, and K is a child of H that reaches past H's left
\* edge
Widgets   == {"A", "B", "W", "P"}
Nodes     == Elems \cup {Root, ModalRoot}

\* Width and height of both roots (UI::ResizeRootElement gives them one size).
RootW == 4
RootH == 1

Positions == (0 .. RootW - 1) \X (0 .. RootH - 1)

\* UIElement::GetType() == Window::GetTypeStatic()
IsWindow(e) == e \in {"W", "P"}

\* UIElement::GetPosition(), relative to the parent, and UIElement::GetSize().
Position(n) ==
    CASE n = "A" -> <<0, 0>>
      [] n = "B" -> <<0, 0>>
      [] n = "W" -> <<2, 0>>
      [] n = "P" -> <<3, 0>>
      [] n = "L" -> <<RootW - 1, 0>>
      [] n = "H" -> <<1, 0>>
      [] n = "K" -> <<0 - 1, 0>>
      [] OTHER   -> <<0, 0>>

Size(n) ==
    CASE n = "A" -> <<2, 1>>
      [] n = "B" -> <<1, 1>>
      [] n = "W" -> <<1, 1>>
      [] n = "P" -> <<1, 1>>
      [] n = "C" -> <<1, 1>>
      [] n = "D" -> <<1, 1>>
      [] n = "R" -> <<1, 1>>
      [] n = "L" -> <<RootW - 1, 1>>
      [] n = "H" -> <<RootW + 1, 1>>
      [] n = "K" -> <<2, 1>>
      [] OTHER   -> <<RootW, RootH>>

\* UIElement::GetPriority()
Priority(n) == IF n = "H" THEN 1 ELSE 0

\* UIElement::GetFocusMode(); the order of the FocusMode enumeration.
FocusRank == [FM_NOTFOCUSABLE |-> 0, FM_RESETFOCUS |-> 1, FM_FOCUSABLE |-> 2,
              FM_FOCUSABLE_DEFOCUSABLE |-> 3]

FocusMode(n) ==
    CASE n = "A" -> "FM_FOCUSABLE_DEFOCUSABLE"
      [] n = "W" -> "FM_FOCUSABLE"
      [] n = "P" -> "FM_FOCUSABLE"
      [] n = "R" -> "FM_RESETFOCUS"
      [] OTHER   -> "FM_NOTFOCUSABLE"

\* UIElement::GetLayoutMode() of a parent.
LayoutMode(n) == "LM_FREE"

\* UIElement::GetLayoutElementMaxSize() and GetLayoutSpacing() of a parent.
LayoutElementMaxSize(n) == 0
LayoutSpacing(n) == 0

\* M_MAX_UNSIGNED, the index recorded for "no parent": larger than any child count.
NoIndex == Cardinality(Nodes) + 1
\* A tag store without the four keys of UI.cpp (VAR_ORIGIN, VAR_ORIGINAL_PARENT,
\* VAR_ORIGINAL_CHILD_INDEX, VAR_PARENT_CHANGED).  An absent index is NoUInt.
NoUInt == 0 - 1
NoVars == [origin |-> Null, originalParent |-> Null, originalChildIndex |-> NoUInt,
           parentChanged |-> Null]
\* Variant::GetUInt(): 0 for an absent value
GetUInt(v) == IF v = NoUInt THEN 0 ELSE v

----------------------------------------------------------------------------
(* Sequence helpers.                                                       *)

Range(s) == {s[i] : i \in 1 .. Len(s)}

\* Vector::Erase of one value
RECURSIVE Without(_, _)
Without(s, x) ==
    IF s = <<>> THEN <<>>
    ELSE IF Head(s) = x THEN Without(Tail(s), x)
    ELSE <<Head(s)>> \o Without(Tail(s), x)

\* Vector::Insert at a 0-based index, Push when the index is past the end
InsertAt(s, idx, x) ==
    IF idx >= Len(s) THEN Append(s, x)
    ELSE SubSeq(s, 1, idx) \o <<x>> \o SubSeq(s, idx + 1, Len(s))

\* 0-based index of x in s, NoIndex when absent
IndexOf(s, x) ==
    IF x \in Range(s) THEN (CHOOSE i \in 1 .. Len(s) : s[i] = x) - 1 ELSE NoIndex

\* All permutations of a finite set, as sequences
Perms(S) ==
    {s \in [1 .. Cardinality(S) -> S] : \A i, j \in 1 .. Cardinality(S) : i # j => s[i] # s[j]}

\* A delivered callback or event: its name, the element it is delivered to or
\* reports, one further argument, and the button set it carries
EvArg(ev, el, arg) == [ev |-> ev, el |-> el, arg |-> arg, buttons |-> {}]
Ev(ev, el) == EvArg(ev, el, Null)

\* UI::SendDragOrHoverEvent for a registry entry d: P_ELEMENT and P_BUTTONS
SendDragOrHoverEvent(ev, el, d) ==
    [ev |-> ev, el |-> el, arg |-> Null, buttons |-> d.dragButtons]

----------------------------------------------------------------------------
(* Geometry of the tree (UIElement, consumed through its interface).       *)

RECURSIVE ScreenPosition(_)
\* UIElement::GetScreenPosition(): own position plus the parent chain's
ScreenPosition(n) ==
    IF parent[n] = Null THEN Position(n)
    ELSE LET pp == ScreenPosition(parent[n])
         IN  <<Position(n)[1] + pp[1], Position(n)[2] + pp[2]>>

\* UIElement::IsInside(position, true)
IsInside(n, position) ==
    LET sp == ScreenPosition(n)
    IN  /\ position[1] >= sp[1] /\ position[1] < sp[1] + Size(n)[1]
        /\ position[2] >= sp[2] /\ position[2] < sp[2] + Size(n)[2]

\* UIElement::IsInsideCombined(position, true): the bounding box of the element's
\* rect and its children's rects
IsInsideCombined(n, position) ==
    LET own  == {n} \cup Range(children[n])
        left   == CHOOSE v \in {ScreenPosition(m)[1] : m \in own} :
                      \A m \in own : v <= ScreenPosition(m)[1]
        top    == CHOOSE v \in {ScreenPosition(m)[2] : m \in own} :
                      \A m \in own : v <= ScreenPosition(m)[2]
        right  == CHOOSE v \in {ScreenPosition(m)[1] + Size(m)[1] : m \in own} :
                      \A m \in own : v >= ScreenPosition(m)[1] + Size(m)[1]
        bottom == CHOOSE v \in {ScreenPosition(m)[2] + Size(m)[2] : m \in own} :
                      \A m \in own : v >= ScreenPosition(m)[2] + Size(m)[2]
    IN  /\ position[1] >= left /\ position[1] < right
        /\ position[2] >= top  /\ position[2] < bottom

RECURSIVE InsertSorted(_, _)
InsertSorted(s, x) ==
    IF s = <<>> THEN <<x>>
    ELSE IF Priority(Head(s)) <= Priority(x) THEN <<Head(s)>> \o InsertSorted(Tail(s), x)
    ELSE <<x>> \o s

\* a SortChildren that leaves the children in the order of their creation
SortChildrenKeep(s) == s

RECURSIVE SortChildren(_)
\* UIElement::SortChildren(): stable sort by ascending priority
SortChildren(s) ==
    IF s = <<>> THEN <<>>
    ELSE InsertSorted(SortChildren(SubSeq(s, 1, Len(s) - 1)), s[Len(s)])

\* n lies in the subtree below r (r itself excluded)
RECURSIVE IsUnder(_, _)
IsUnder(n, r) ==
    /\ n # Null
    /\ parent[n] # Null
    /\ (parent[n] = r \/ IsUnder(parent[n], r))

\* UI::HasModalElement
HasModalElement == Len(children[ModalRoot]) > 0

----------------------------------------------------------------------------
(* Hit-testing.  A traversal state st is [result, ch]: the running best    *)
(* result and the children lists as sorted so far.                         *)

\* the test (*i) != cursor_ that never excludes an element
IsCursorNever(e) == FALSE

\* the designated cursor element: the test against cursor_ of UI::GetBatches and
\* of UI::GetElementAt
IsCursor(e) == e = input.cursor

RECURSIVE GetElementAtLoop(_, _, _, _, _)
RECURSIVE GetElementAtRec(_, _, _, _)

\* UI::GetElementAt(UIElement*& result, UIElement* current, position, enabledOnly):
\* the loop over current's children from 0-based index i on
GetElementAtLoop(st, current, i, position, enabledOnly) ==
    LET kids == st.ch[current] IN
    IF i >= Len(kids) THEN st
    ELSE
    LET element     == kids[i + 1]
        hasChildren == Len(st.ch[element]) > 0
        mode        == LayoutMode(current)
        next(s)     == GetElementAtLoop(s, current, i + 1, position, enabledOnly)
    IN
    IF ~IsCursor(element) /\ visible[element]
    THEN IF IsInside(element, position)
         THEN LET st1 == IF enabled[element] \/ ~enabledOnly
                         THEN [st EXCEPT !.result = element] ELSE st
              IN  IF hasChildren
                  THEN next(GetElementAtRec(st1, element, position, enabledOnly))
                  ELSE IF mode # "LM_FREE" THEN st1 ELSE next(st1)
         ELSE IF hasChildren
              THEN IF IsInsideCombined(element, position)
                   THEN next(GetElementAtRec(st, element, position, enabledOnly))
                   ELSE next(st)
              ELSE IF mode # "LM_FREE"
                   THEN IF i = 0
                        THEN LET screenPos == IF mode = "LM_HORIZONTAL"
                                              THEN ScreenPosition(element)[1]
                                              ELSE ScreenPosition(element)[2]
                                 maxSize == LayoutElementMaxSize(current)
                                 toSkip  == IF screenPos < 0 /\ maxSize > 0
                                            THEN (0 - screenPos) \div (maxSize + LayoutSpacing(current))
                                            ELSE 0
                             IN  GetElementAtLoop(st, current,
                                     IF toSkip > 0 THEN i + toSkip ELSE i + 1,
                                     position, enabledOnly)
                        ELSE IF mode = "LM_HORIZONTAL"
                        THEN IF ScreenPosition(element)[1] >= Position(Root)[1] + Size(Root)[1]
                             THEN st ELSE next(st)
                        ELSE IF mode = "LM_VERTICAL"
                        THEN IF ScreenPosition(element)[2] >= Position(Root)[2] + Size(Root)[2]
                             THEN st ELSE next(st)
                        ELSE next(st)
                   ELSE next(st)
    ELSE next(st)

\* the same function from its entry: sort current's children, then loop
GetElementAtRec(st, current, position, enabledOnly) ==
    IF current = Null THEN st
    ELSE GetElementAtLoop([st EXCEPT !.ch[current] = SortChildren(st.ch[current])],
                          current, 0, position, enabledOnly)

\* UI::GetElementAt(UIElement* root, position, enabledOnly): bounds check of the
\* root, wrap of the position, then the recursive search
GetElementAtRoot(ch, root, position, enabledOnly) ==
    LET rootPos  == Position(root)
        rootSize == Size(root)
    IN
    IF \/ position[1] < rootPos[1] \/ position[1] > rootPos[1] + rootSize[1]
       \/ position[2] < rootPos[2] \/ position[2] > rootPos[2] + rootSize[2]
    THEN [result |-> Null, ch |-> ch]
    ELSE LET wrap(v, p, sz) == IF v >= p + sz THEN p + ((v - p) % sz) ELSE v
             positionCopy ==
                 IF rootSize[1] > 0 /\ rootSize[2] > 0
                 THEN <<wrap(position[1], rootPos[1], rootSize[1]),
                        wrap(position[2], rootPos[2], rootSize[2])>>
                 ELSE position
         IN  GetElementAtRec([result |-> Null, ch |-> ch], root, positionCopy, enabledOnly)

\* UI::GetElementAt(position, enabledOnly, elementScreenPosition): the modal root
\* first when a modal element is active, then the normal root.  No element has a
\* render texture (renderToTexture_ is empty).
GetElementAt(ch, position, enabledOnly) ==
    LET modal == IF Len(ch[ModalRoot]) > 0
                 THEN GetElementAtRoot(ch, ModalRoot, position, enabledOnly)
                 ELSE [result |-> Null, ch |-> ch]
    IN  IF modal.result # Null THEN modal
        ELSE GetElementAtRoot(modal.ch, Root, position, enabledOnly)

----------------------------------------------------------------------------
(* Focus.                                                                  *)

RECURSIVE GetFocusableElement(_)
\* UI::GetFocusableElement that does not walk up the parent chain
GetFocusableElementSelf(element) ==
    IF element = Null THEN Null
    ELSE IF FocusMode(element) # "FM_NOTFOCUSABLE" THEN element
    ELSE Null

\* UI::GetFocusableElement: the nearest ancestor-or-self that is not FM_NOTFOCUSABLE
GetFocusableElement(element) ==
    IF element = Null THEN Null
    ELSE IF FocusMode(element) # "FM_NOTFOCUSABLE" THEN element
    ELSE GetFocusableElement(parent[element])

RECURSIVE TopLevelUnderRoot(_)
\* the loop of SetFocusElement and SetModalElement: walk up from n until an
\* element whose parent is rootElement_, or Null when the chain ends first
TopLevelUnderRoot(n) ==
    IF n = Null THEN Null
    ELSE IF parent[n] = Root THEN n
    ELSE TopLevelUnderRoot(parent[n])

\* the modal check of UI::SetFocusElement: the request is ignored
FocusRejectedByModal(element) ==
    HasModalElement /\ TopLevelUnderRoot(parent[element]) # Null

\* UI::SetFocusElement(element, byKey): the new focusElement_ and the events sent
SetFocusElement(focus, element) ==
    LET same     == element # Null /\ focus = element
        rejected == element # Null /\ FocusRejectedByModal(element)
        target   == IF element = Null THEN Null ELSE GetFocusableElement(element)
        takes    == target # Null /\ FocusRank[FocusMode(target)] >= FocusRank.FM_FOCUSABLE
    IN
    IF same \/ rejected \/ (element # Null /\ target = Null)
    THEN [focus |-> focus, fired |-> <<>>]
    ELSE [focus |-> IF takes THEN target ELSE Null,
          fired |-> (IF focus # Null THEN <<Ev("E_DEFOCUSED", focus)>> ELSE <<>>)
                    \o (IF takes THEN <<Ev("E_FOCUSED", target)>> ELSE <<>>)
                    \o <<EvArg("E_FOCUSCHANGED", target, element)>>]

----------------------------------------------------------------------------
(* Modal relocation.  A tree t is [parent, children, vars].                *)

\* UIElement::SetParent(newParent, index): nothing for a null parent or the
\* current one; else leave the old parent and enter the new one at index
SetParent(t, e, newParent, index) ==
    IF newParent = Null \/ t.parent[e] = newParent THEN t
    ELSE LET old     == t.parent[e]
             removed == IF old = Null THEN t.children
                        ELSE [t.children EXCEPT ![old] = Without(@, e)]
         IN  [t EXCEPT !.parent[e] = newParent,
                       !.children = [removed EXCEPT ![newParent] = InsertAt(@, index, e)]]

\* UIElement::FindChild as SetModalElement uses it: index under the parent, or
\* M_MAX_UNSIGNED without a parent
ChildIndex(t, e) ==
    IF t.parent[e] = Null THEN NoIndex ELSE IndexOf(t.children[t.parent[e]], e)

RECURSIVE TopLevelIn(_, _)
\* the walk of SetModalElement from the origin up to a child of rootElement_
TopLevelIn(t, n) ==
    IF n = Null THEN Null
    ELSE IF t.parent[n] = Root THEN n
    ELSE TopLevelIn(t, t.parent[n])

\* UI::SetModalElement(modalElement, true) past its checks
EnableModal(t, modalElement) ==
    LET t1 == [t EXCEPT !.vars[modalElement].originalParent = t.parent[modalElement],
                        !.vars[modalElement].originalChildIndex = ChildIndex(t, modalElement)]
        t2 == SetParent(t1, modalElement, ModalRoot, NoIndex)
        originElement == t2.vars[modalElement].origin
        element == TopLevelIn(t2, originElement)
    IN  IF originElement = Null \/ element = Null THEN t2
        ELSE LET t3 == [t2 EXCEPT !.vars[originElement].parentChanged = element]
                 t4 == [t3 EXCEPT !.vars[element].originalParent = t3.parent[element],
                                  !.vars[element].originalChildIndex = ChildIndex(t3, element)]
             IN  SetParent(t4, element, ModalRoot, NoIndex)

\* UI::SetModalElement(modalElement, false) past its checks.  Line 299 assigns the
\* relocated element's tag store to modalElement's through the reference vars, and
\* the two Erase calls after it act on modalElement's store.
DisableModal(t, modalElement) ==
    LET t1 == SetParent(t, modalElement, t.vars[modalElement].originalParent,
                        GetUInt(t.vars[modalElement].originalChildIndex))
        t2 == [t1 EXCEPT !.vars[modalElement].originalParent = Null,
                         !.vars[modalElement].originalChildIndex = NoUInt]
        originElement == t2.vars[modalElement].origin
        element == IF originElement = Null THEN Null ELSE t2.vars[originElement].parentChanged
    IN  IF element = Null THEN t2
        ELSE LET t3 == [t2 EXCEPT !.vars[originElement].parentChanged = Null]
                 t4 == SetParent(t3, element, t3.vars[element].originalParent,
                                 GetUInt(t3.vars[element].originalChildIndex))
                 t5 == [t4 EXCEPT !.vars[modalElement] = t4.vars[element]]
             IN  [t5 EXCEPT !.vars[modalElement].originalParent = Null,
                            !.vars[modalElement].originalChildIndex = NoUInt]

\* SetModalElement without the check that the element is not yet a child of the
\* modal root
SetModalElementEnableTwice(t, modalElement, enable) ==
    IF modalElement = Null THEN [ok |-> FALSE, t |-> t]
    ELSE IF ~IsWindow(modalElement) THEN [ok |-> FALSE, t |-> t]
    ELSE IF enable THEN [ok |-> TRUE, t |-> EnableModal(t, modalElement)]
    ELSE IF t.parent[modalElement] # ModalRoot THEN [ok |-> FALSE, t |-> t]
    ELSE [ok |-> TRUE, t |-> DisableModal(t, modalElement)]

\* SetModalElement without the check of the element's type
SetModalElementAnyType(t, modalElement, enable) ==
    IF modalElement = Null THEN [ok |-> FALSE, t |-> t]
    ELSE IF enable
         THEN IF t.parent[modalElement] = ModalRoot THEN [ok |-> FALSE, t |-> t]
              ELSE [ok |-> TRUE, t |-> EnableModal(t, modalElement)]
         ELSE IF t.parent[modalElement] # ModalRoot THEN [ok |-> FALSE, t |-> t]
              ELSE [ok |-> TRUE, t |-> DisableModal(t, modalElement)]

\* UI::SetModalElement: [ok, t], the return value and the tree afterwards
SetModalElement(t, modalElement, enable) ==
    IF modalElement = Null THEN [ok |-> FALSE, t |-> t]
    ELSE IF ~IsWindow(modalElement) THEN [ok |-> FALSE, t |-> t]
    ELSE IF enable
         THEN IF t.parent[modalElement] = ModalRoot THEN [ok |-> FALSE, t |-> t]
              ELSE [ok |-> TRUE, t |-> EnableModal(t, modalElement)]
         ELSE IF t.parent[modalElement] # ModalRoot THEN [ok |-> FALSE, t |-> t]
              ELSE [ok |-> TRUE, t |-> DisableModal(t, modalElement)]

Tree == [parent |-> parent, children |-> children, vars |-> vars]

----------------------------------------------------------------------------
(* The event router.  A router state rs is a record of the fields the      *)
(* handlers read and write: ch (children lists), focus, drag (the          *)
(* registry), count and confirmed (its two counters), dbl (double-click    *)
(* state), hover and flagged (hover set and the keys flagged this frame),  *)
(* fired, begins (drag-begins delivered per registry entry) and nullDeref  *)
(* (a null element was dereferenced).                                      *)

\* Timer step and the value at which a timer stops counting
TickMSec == 500
MaxMSec  == 500

\* (unsigned)(doubleClickInterval_ * 1000) and (unsigned)(dragBeginInterval_ * 1000)
\* for DEFAULT_DOUBLECLICK_INTERVAL and DEFAULT_DRAGBEGIN_INTERVAL
DoubleClickIntervalMSec == 500
DragBeginIntervalMSec   == 500
\* dragBeginDistance_ and maxDoubleClickDist_ as the application configured them
DragBeginDistance  == 2
MaxDoubleClickDist == 2

\* UIElement::GetDragDropMode(): the DD_SOURCE and DD_TARGET bits
IsDragSource(n) == n = "A"
IsDragTarget(n) == n = "W"

Abs(v) == IF v < 0 THEN 0 - v ELSE v
\* IntVector2 operations
VecAdd(a, b) == <<a[1] + b[1], a[2] + b[2]>>
VecSub(a, b) == <<a[1] - b[1], a[2] - b[2]>>
\* C++ integer division, truncating toward zero
IntDiv(a, b) == IF a >= 0 THEN a \div b ELSE 0 - ((0 - a) \div b)
VecDiv(a, n) == <<IntDiv(a[1], n), IntDiv(a[2], n)>>
\* IntVector2::Length() < dist for an integer dist >= 0, compared on the squares
LengthLess(v, dist) == v[1] * v[1] + v[2] * v[2] < dist * dist

\* WeakPtr<UIElement> tests: non-null and not expired
Live(e) == e # Null /\ alive[e]

\* e is alive and no handler of this pass destroyed it
LiveIn(rs, e) == Live(e) /\ e \notin rs.dead

\* The handler the application subscribed that destroys an element: when
\* callback or event ev of element el runs, it removes victim from the tree and
\* drops the last reference to it.  NoKill: no handler destroys anything.
NoKill == [ev |-> Null, el |-> Null, victim |-> Null]

\* the virtual callbacks, which the router calls through the weak reference
Callbacks == {"OnHover", "OnClickBegin", "OnClickEnd", "OnDoubleClick", "OnDragBegin",
              "OnDragMove", "OnDragEnd", "OnDragCancel", "OnDragDropTest",
              "OnDragDropFinish"}

\* elements of the subtree of n, n included
RECURSIVE Subtree(_)
Subtree(n) == {n} \cup UNION {Subtree(c) : c \in Range(children[n])}

\* UIElement::Remove() of victim with its last reference dropped, inside a pass
Kill(rs, victim) ==
    [rs EXCEPT !.dead = @ \cup Subtree(victim),
               !.killed = @ \cup {victim},
               !.ch = [n \in Nodes |-> IF n \in Subtree(victim) THEN <<>>
                                        ELSE SelectSeq(@[n], LAMBDA c : c # victim)],
               !.focus = IF @ \in Subtree(victim) THEN Null ELSE @,
               !.dbl.element = IF @ \in Subtree(victim) THEN Null ELSE @]

\* one callback or event of the drag passes: SendDragOrHoverEvent returns at once
\* for an element that is gone (UI.cpp:1774-1775), a callback is called through
\* the expired weak reference; what is delivered runs the application's handler
DeliverOne(rs, ev) ==
    IF ev.el \in rs.dead
    THEN IF ev.ev \in Callbacks THEN [rs EXCEPT !.staleDeref = TRUE] ELSE rs
    ELSE IF rs.kill.ev = ev.ev /\ rs.kill.el = ev.el
         THEN Kill([rs EXCEPT !.fired = Append(@, ev)], rs.kill.victim)
         ELSE [rs EXCEPT !.fired = Append(@, ev)]

RECURSIVE Deliver(_, _, _)
Deliver(rs, evs, i) == IF i > Len(evs) THEN rs ELSE Deliver(DeliverOne(rs, evs[i]), evs, i + 1)

Fire(rs, evs) == IF rs.kill = NoKill THEN [rs EXCEPT !.fired = @ \o evs] ELSE Deliver(rs, evs, 1)

\* index of the registry entry of element e, 0 when dragElements_ does not contain it
RECURSIVE DragFind(_, _, _)
DragFind(drag, e, i) ==
    IF i > Len(drag) THEN 0
    ELSE IF drag[i].element = e THEN i
    ELSE DragFind(drag, e, i + 1)

DragContains(drag, e) == DragFind(drag, e, 1) # 0

RemoveAt(s, i) == SubSeq(s, 1, i - 1) \o SubSeq(s, i + 1, Len(s))

\* an erasure that leaves dragConfirmedCount_ as it is
DragElementEraseKeepConfirmed(rs, i) ==
    IF rs.drag = <<>> THEN rs
    ELSE [rs EXCEPT !.cache = <<>>, !.drag = RemoveAt(@, i), !.count = @ - 1]

\* UI::DragElementErase of the entry at index i; the next entry then has index i
DragElementErase(rs, i) ==
    IF rs.drag = <<>> THEN rs
    ELSE [rs EXCEPT !.cache = <<>>,
                    !.confirmed = IF rs.drag[i].dragBeginPending THEN @ ELSE @ - 1,
                    !.drag = RemoveAt(@, i),
                    !.count = @ - 1]

\* the condition under which drag callbacks are delivered to an entry's element
DragDeliverable(e) == Live(e) /\ enabled[e] /\ visible[e]

\* a cancel that does not spare the entries still pending
DragCancelledAlsoPending(d) == DragDeliverable(d.element)

\* UI::ProcessDragCancel, line 2228: the entries a cancel acts on
DragCancelled(d) == DragDeliverable(d.element) /\ ~d.dragBeginPending

RECURSIVE DragCancelLoop(_, _)
DragCancelLoop(rs, i) ==
    IF i > Len(rs.drag) THEN rs
    ELSE LET d == rs.drag[i] IN
         IF DragCancelled(d)
         THEN DragCancelLoop(
                  DragElementErase(
                      Fire(rs, <<Ev("OnDragCancel", d.element),
                                 SendDragOrHoverEvent("E_DRAGCANCEL", d.element, d)>>), i),
                  i)
         ELSE DragCancelLoop(rs, i + 1)

\* a cancel that also runs while touch input is in use
ProcessDragCancelAlsoInTouch(rs, usingTouchInput) == DragCancelLoop(rs, 1)

\* UI::ProcessDragCancel
ProcessDragCancel(rs, usingTouchInput) ==
    IF usingTouchInput THEN rs ELSE DragCancelLoop(rs, 1)

\* the double-click test with the interval itself still in time
DoubleClickInTimeInclusive(dbl, windowCursorPos, buttons) ==
    /\ dbl.timer <= DoubleClickIntervalMSec
    /\ dbl.lastButtons = buttons
    /\ LengthLess(VecSub(windowCursorPos, dbl.firstPos), MaxDoubleClickDist)

\* the double-click test of UI::ProcessClickBegin, without its element part
DoubleClickInTime(dbl, windowCursorPos, buttons) ==
    /\ dbl.timer < DoubleClickIntervalMSec
    /\ dbl.lastButtons = buttons
    /\ LengthLess(VecSub(windowCursorPos, dbl.firstPos), MaxDoubleClickDist)

\* a start of drag that leaves numDragButtons as it is when a button joins an entry
ClickBeginDragStaleCount(rs, element, cursorPos, button, newButton) ==
    LET i == DragFind(rs.drag, element, 1) IN
    IF i = 0
    THEN [rs EXCEPT !.drag = Append(@, [element          |-> element,
                                        dragBeginPending |-> TRUE,
                                        sumPos           |-> cursorPos,
                                        dragBeginSumPos  |-> cursorPos,
                                        dragBeginTimer   |-> 0,
                                        dragButtons      |-> {button},
                                        numDragButtons   |-> Cardinality({button})]),
                    !.count = @ + 1,
                    !.begins[element] = 0]
    ELSE IF newButton
    THEN [rs EXCEPT !.drag[i].sumPos = VecAdd(@, cursorPos),
                    !.drag[i].dragBeginSumPos = VecAdd(@, cursorPos),
                    !.drag[i].dragButtons = @ \cup {button}]
    ELSE rs

\* UI::ProcessClickBegin, the part that starts or extends a drag
ClickBeginDrag(rs, element, cursorPos, button, newButton) ==
    LET i == DragFind(rs.drag, element, 1) IN
    IF i = 0
    THEN [rs EXCEPT !.drag = Append(@, [element          |-> element,
                                        dragBeginPending |-> TRUE,
                                        sumPos           |-> cursorPos,
                                        dragBeginSumPos  |-> cursorPos,
                                        dragBeginTimer   |-> 0,
                                        dragButtons      |-> {button},
                                        numDragButtons   |-> Cardinality({button})]),
                    !.count = @ + 1,
                    !.begins[element] = 0]
    ELSE IF newButton
    THEN [rs EXCEPT !.drag[i].sumPos = VecAdd(@, cursorPos),
                    !.drag[i].dragBeginSumPos = VecAdd(@, cursorPos),
                    !.drag[i].dragButtons = @ \cup {button},
                    !.drag[i].numDragButtons = Cardinality(rs.drag[i].dragButtons \cup {button})]
    ELSE rs

\* UI::ProcessClickBegin, lines 1556-1566: the focus, OnClickBegin and the click events
ClickBeginFocus(rs, f, element) ==
    Fire([rs EXCEPT !.focus = f.focus],
         f.fired \o <<Ev("OnClickBegin", element), Ev("E_CLICK", element),
                      Ev("E_UIMOUSECLICK", element)>>)

\* UI::ProcessClickBegin, lines 1569-1582: the double click, or the record of a
\* first click
ClickBeginDouble(rs, element, windowCursorPos, buttons) ==
    IF /\ Live(rs.dbl.element)
       /\ element = rs.dbl.element
       /\ DoubleClickInTime(rs.dbl, windowCursorPos, buttons)
    THEN Fire([rs EXCEPT !.dbl.element = Null, !.dbl.timer = 0],
              <<Ev("OnDoubleClick", element), Ev("E_DOUBLECLICK", element),
                Ev("E_UIMOUSEDOUBLECLICK", element)>>)
    ELSE [rs EXCEPT !.dbl.element = element,
                    !.dbl.firstPos = windowCursorPos,
                    !.dbl.timer = 0]

\* a click over no element that leaves the focus alone
ClickBeginOnNothingKeepFocus(rs, f, windowCursorPos, buttons) ==
    Fire(rs, <<Ev("E_UIMOUSECLICK", Null)>>)

\* UI::ProcessClickBegin, lines 1609-1618: a click over no element
ClickBeginOnNothing(rs, f, windowCursorPos, buttons) ==
    Fire([rs EXCEPT !.focus = f.focus],
         f.fired \o <<Ev("E_UIMOUSECLICK", Null)>>
                 \o (IF DoubleClickInTime(rs.dbl, windowCursorPos, buttons)
                     THEN <<Ev("E_UIMOUSEDOUBLECLICK", Null)>> ELSE <<>>))

\* UI::ProcessClickBegin past the hit test, element being the element hit
ClickBeginAt(rs, element, windowCursorPos, button, newButton, buttons) ==
    IF element # Null
    THEN [ClickBeginDrag(
              ClickBeginDouble(ClickBeginFocus(rs, SetFocusElement(rs.focus, element), element),
                               element, windowCursorPos, buttons),
              element, windowCursorPos, button, newButton)
          EXCEPT !.dbl.lastButtons = buttons]
    ELSE [ClickBeginOnNothing(rs,
                              IF Len(rs.ch[ModalRoot]) > 0
                              THEN [focus |-> rs.focus, fired |-> <<>>]
                              ELSE SetFocusElement(rs.focus, Null),
                              windowCursorPos, buttons)
          EXCEPT !.dbl.timer = 0, !.dbl.lastButtons = buttons]

\* the router state with the children lists as a hit test left them
Sorted(rs, hit) == [rs EXCEPT !.ch = hit.ch]

\* UI::ProcessClickBegin with the result of its hit test
ClickBeginHit(rs, hit, windowCursorPos, button, newButton, buttons) ==
    ClickBeginAt(Sorted(rs, hit), hit.result, windowCursorPos, button, newButton, buttons)

\* UI::ProcessClickBegin(windowCursorPos, button, buttons, qualifiers, cursor, cursorVisible)
ProcessClickBegin(rs, windowCursorPos, button, buttonsIn, usingTouchInput, cursorVisible) ==
    IF ~cursorVisible THEN rs
    ELSE ClickBeginHit(rs, GetElementAt(rs.ch, windowCursorPos, TRUE), windowCursorPos, button,
                       IF usingTouchInput THEN button \notin buttonsIn ELSE TRUE,
                       buttonsIn \cup {button})

\* a release that ends only the entries holding no other button
ParticipatesAlone(d, button) == d.dragButtons = {button}

\* UI::ProcessClickEnd, line 1643: the released button is one of the entry's
Participates(d, button) == button \in d.dragButtons

\* a drag end delivered also to the entries still pending
DragEndDeliveredAlsoPending(d) == enabled[d.element] /\ visible[d.element]

\* UI::ProcessClickEnd, line 1652: the entry of a live element gets its drag end
DragEndDelivered(d) == enabled[d.element] /\ visible[d.element] /\ ~d.dragBeginPending

RECURSIVE ClickEndLoop(_, _, _, _, _)
ClickEndLoop(rs, i, element, button, cursorVisible) ==
    IF i > Len(rs.drag) THEN rs
    ELSE LET d == rs.drag[i]
             dragElement == d.element
         IN
         IF ~Live(dragElement) \/ ~cursorVisible
         THEN ClickEndLoop(DragElementErase(rs, i), i, element, button, cursorVisible)
         ELSE IF Participates(d, button)
         THEN LET click == (IF element # Null
                            THEN <<Ev("OnClickEnd", element), Ev("E_CLICKEND", element)>>
                            ELSE <<>>)
                           \o <<EvArg("E_UIMOUSECLICKEND", element, dragElement)>>
                  ends  == DragEndDelivered(d)
                  finish == /\ ends /\ IsDragSource(dragElement)
                            /\ element # Null /\ IsDragTarget(element)
                            /\ element # dragElement
                  evs == click
                         \o (IF ends THEN <<Ev("OnDragEnd", dragElement),
                                            SendDragOrHoverEvent("E_DRAGEND", dragElement, d)>>
                             ELSE <<>>)
                         \o (IF finish THEN <<EvArg("OnDragDropFinish", element, dragElement),
                                              EvArg("E_DRAGDROPFINISH", element, dragElement)>>
                             ELSE <<>>)
              IN  ClickEndLoop(DragElementErase(Fire(rs, evs), i), i, element, button,
                               cursorVisible)
         ELSE ClickEndLoop(rs, i + 1, element, button, cursorVisible)

\* UI::ProcessClickEnd(windowCursorPos, button, buttons, qualifiers, cursor, cursorVisible)
ClickEndHit(rs, hit, button, cursorVisible) ==
    ClickEndLoop(Sorted(rs, hit), 1, hit.result, button, cursorVisible)

ProcessClickEnd(rs, windowCursorPos, button, cursorVisible) ==
    ClickEndHit(rs,
                IF cursorVisible THEN GetElementAt(rs.ch, windowCursorPos, TRUE)
                ELSE [result |-> Null, ch |-> rs.ch],
                button, cursorVisible)

RECURSIVE MoveLoop(_, _, _, _, _, _, _)
MoveLoop(rs, i, cursorPos, cursorDeltaPos, buttons, usingTouchInput, mouseGrabbed) ==
    IF i > Len(rs.drag) THEN rs
    ELSE LET d == rs.drag[i]
             dragElement == d.element
             next(r) == MoveLoop(r, i + 1, cursorPos, cursorDeltaPos, buttons, usingTouchInput,
                                 mouseGrabbed)
         IN
         IF ~LiveIn(rs, dragElement)
         THEN MoveLoop(DragElementErase(rs, i), i, cursorPos, cursorDeltaPos, buttons,
                       usingTouchInput, mouseGrabbed)
         ELSE IF d.dragButtons \cap buttons = {} THEN next(rs)
         ELSE
         LET sumPos  == IF usingTouchInput THEN VecAdd(d.sumPos, cursorDeltaPos) ELSE cursorPos
             sendPos == IF usingTouchInput THEN VecDiv(sumPos, d.numDragButtons) ELSE cursorPos
             rs1     == [rs EXCEPT !.drag[i].sumPos = sumPos]
         IN
         IF enabled[dragElement] /\ visible[dragElement]
         THEN LET beginSendPos == VecDiv(d.dragBeginSumPos, d.numDragButtons)
                  offset  == VecSub(cursorPos, beginSendPos)
                  promote == /\ d.dragBeginPending /\ ~mouseGrabbed
                             /\ (\/ Abs(offset[1]) >= DragBeginDistance
                                 \/ Abs(offset[2]) >= DragBeginDistance)
                  rs2 == IF promote
                         THEN Fire([rs1 EXCEPT !.drag[i].dragBeginPending = FALSE,
                                               !.confirmed = @ + 1,
                                               !.begins[dragElement] = @ + 1],
                                   <<Ev("OnDragBegin", dragElement),
                                     SendDragOrHoverEvent("E_DRAGBEGIN", dragElement, d)>>)
                         ELSE rs1
                  rs3 == IF ~rs2.drag[i].dragBeginPending
                         THEN Fire(rs2, <<Ev("OnDragMove", dragElement),
                                          SendDragOrHoverEvent("E_DRAGMOVE", dragElement, d)>>)
                         ELSE rs2
              IN  next(rs3)
         ELSE next(Fire(rs1, <<Ev("OnDragEnd", dragElement),
                              SendDragOrHoverEvent("E_DRAGEND", dragElement, d)>>))

\* UI::ProcessMove(windowCursorPos, cursorDeltaPos, buttons, qualifiers, cursor, cursorVisible)
ProcessMove(rs, windowCursorPos, cursorDeltaPos, buttons, usingTouchInput, cursorVisible, mouseGrabbed) ==
    IF cursorVisible /\ rs.count > 0 /\ buttons # {}
    THEN LET hit == GetElementAt(rs.ch, windowCursorPos, TRUE)
         IN  MoveLoop([rs EXCEPT !.ch = hit.ch], 1, windowCursorPos, cursorDeltaPos, buttons,
                      usingTouchInput, mouseGrabbed)
    ELSE rs

RECURSIVE DragBeginTimeLoopAgain(_, _)
\* the time-based drag begin without the skip of the entries already begun
DragBeginTimeLoopAgain(rs, i) ==
    IF i > Len(rs.drag) THEN rs
    ELSE LET d == rs.drag[i] IN
         IF ~Live(d.element) THEN DragBeginTimeLoopAgain(DragElementErase(rs, i), i)
         ELSE IF d.dragBeginTimer >= DragBeginIntervalMSec
         THEN DragBeginTimeLoopAgain(
                  Fire([rs EXCEPT !.drag[i].dragBeginPending = FALSE,
                                  !.confirmed = @ + 1,
                                  !.begins[d.element] = @ + 1],
                       <<Ev("OnDragBegin", d.element),
                         SendDragOrHoverEvent("E_DRAGBEGIN", d.element, d)>>),
                  i + 1)
         ELSE DragBeginTimeLoopAgain(rs, i + 1)

RECURSIVE DragBeginTimeLoop(_, _)
DragBeginTimeLoop(rs, i) ==
    IF i > Len(rs.drag) THEN rs
    ELSE LET d == rs.drag[i] IN
         IF ~LiveIn(rs, d.element) THEN DragBeginTimeLoop(DragElementErase(rs, i), i)
         ELSE IF ~d.dragBeginPending THEN DragBeginTimeLoop(rs, i + 1)
         ELSE IF d.dragBeginTimer >= DragBeginIntervalMSec
         THEN DragBeginTimeLoop(
                  Fire([rs EXCEPT !.drag[i].dragBeginPending = FALSE,
                                  !.confirmed = @ + 1,
                                  !.begins[d.element] = @ + 1],
                       <<Ev("OnDragBegin", d.element),
                         SendDragOrHoverEvent("E_DRAGBEGIN", d.element, d)>>),
                  i + 1)
         ELSE DragBeginTimeLoop(rs, i + 1)

\* UI::Update, lines 334-373: the time-based drag begin
UpdateDragBegin(rs, mouseGrabbed) ==
    IF rs.count > 0 /\ ~mouseGrabbed THEN DragBeginTimeLoop(rs, 1) ELSE rs

\* the hover of one element that sends E_HOVERBEGIN whether or not the hover set
\* contains the element
HoverElementAlwaysBegin(rs, element) ==
    [Fire(rs, <<Ev("OnHover", element), Ev("E_HOVERBEGIN", element)>>)
        EXCEPT !.hover = @ \cup {element}, !.flagged = @ \cup {element}]

\* UI::ProcessHover, the hover of one element: OnHover, E_HOVERBEGIN when the hover
\* set does not contain it, and its flag set
HoverElement(rs, element) ==
    LET rs1 == Fire(rs, <<Ev("OnHover", element)>>
                        \o (IF element \notin rs.hover
                            THEN <<Ev("E_HOVERBEGIN", element)>> ELSE <<>>))
    IN  [rs1 EXCEPT !.hover = @ \cup {element}, !.flagged = @ \cup {element}]

RECURSIVE HoverDragLoop(_, _, _)
HoverDragLoop(rs, i, element) ==
    IF i > Len(rs.drag) THEN rs
    ELSE LET d == rs.drag[i]
             dragElement == d.element
         IN
         IF ~LiveIn(rs, dragElement) THEN HoverDragLoop(DragElementErase(rs, i), i, element)
         ELSE
         LET dragDropTest == /\ IsDragSource(dragElement)
                             /\ element # Null /\ IsDragTarget(element)
                             /\ element # dragElement
                             /\ ~d.dragBeginPending
             rs1 == IF element # Null /\ enabled[element]
                       /\ (dragElement = element \/ dragDropTest)
                    THEN HoverElement(rs, element) ELSE rs
             rs2 == IF dragDropTest
                    THEN Fire(rs1, <<EvArg("OnDragDropTest", element, dragElement),
                                     EvArg("E_DRAGDROPTEST", element, dragElement)>>)
                    ELSE rs1
         IN  HoverDragLoop(rs2, i + 1, element)

\* UI::ProcessHover(windowCursorPos, buttons, qualifiers, cursor).  Lines 1523-1539
\* call element->OnHover whenever no drag is tracked, also for a null element.
HoverNoDrag(rs, element) ==
    IF rs.count = 0
    THEN IF element = Null THEN [rs EXCEPT !.nullDeref = TRUE]
         ELSE HoverElement(rs, element)
    ELSE rs

HoverHit(rs, hit) == HoverNoDrag(HoverDragLoop(Sorted(rs, hit), 1, hit.result), hit.result)

ProcessHover(rs, windowCursorPos) == HoverHit(rs, GetElementAt(rs.ch, windowCursorPos, TRUE))

\* UI::Update, lines 392-409: every key that is expired or was not flagged this
\* frame leaves the hover set, a live one with E_HOVEREND
RECURSIVE HoverEndEvents(_)
HoverEndEvents(S) ==
    IF S = {} THEN <<>>
    ELSE LET e == CHOOSE x \in S : TRUE
         IN  (IF Live(e) THEN <<Ev("E_HOVEREND", e)>> ELSE <<>>) \o HoverEndEvents(S \ {e})

UpdateHoverEnd(rs) ==
    LET stale == {e \in rs.hover : ~LiveIn(rs, e) \/ e \notin rs.flagged}
    IN  Fire([rs EXCEPT !.hover = @ \ stale], HoverEndEvents(stale \ rs.dead))

\* a weak reference that never reports its element gone
ExpiredNever(rs, element) == FALSE

\* WeakPtr::Expired() inside a pass
Expired(rs, element) == element \in rs.dead

\* element->Update(timeStep): the element's own per-frame logic, which the
\* application's override may use to destroy an element
ElementUpdate(rs, element) ==
    IF rs.kill.ev = "Update" /\ rs.kill.el = element
    THEN Kill([rs EXCEPT !.updated = Append(@, element)], rs.kill.victim)
    ELSE [rs EXCEPT !.updated = Append(@, element)]

RECURSIVE UpdateElement(_, _)
RECURSIVE UpdateChildren(_, _, _)
\* the loop of UI::Update(timeStep, element) from the 0-based index i on; children
\* is a reference to the element's own child vector, read at every step
UpdateChildren(rs, element, i) ==
    IF element \in rs.dead THEN [rs EXCEPT !.staleDeref = TRUE]
    ELSE IF i >= Len(rs.ch[element]) THEN rs
    ELSE UpdateChildren(UpdateElement(rs, rs.ch[element][i + 1]), element, i + 1)

\* UI::Update(timeStep, element) after the element's own update
UpdateIfAlive(rs, element) ==
    IF Expired(rs, element) THEN rs ELSE UpdateChildren(rs, element, 0)

\* UI::Update(timeStep, element)
UpdateElement(rs, element) == UpdateIfAlive(ElementUpdate(rs, element), element)

----------------------------------------------------------------------------
(* Batches (UIBatch.cpp).  A batch is a record of element_, blendMode_,     *)
(* scissor_, texture_, customMaterial_, vertexData_ (the identity of the    *)
(* vertex buffer) and the range vertexStart_ .. vertexEnd_, counted in      *)
(* quads.                                                                   *)

\* UIBatch::UIBatch(): the default batch
NoBatch == [element |-> Null, blendMode |-> "BLEND_REPLACE", scissor |-> <<0, 0, 0, 0>>,
            texture |-> Null, customMaterial |-> Null, vertexData |-> Null,
            vertexStart |-> 0, vertexEnd |-> 0]

\* UIBatch::Merge that does not compare the textures
MergeAnyTexture(self, batch) ==
    IF \/ batch.blendMode # self.blendMode
       \/ batch.scissor # self.scissor
       \/ batch.vertexData # self.vertexData
       \/ batch.vertexStart # self.vertexEnd
    THEN [ok |-> FALSE, self |-> self]
    ELSE [ok |-> TRUE, self |-> [self EXCEPT !.vertexEnd = batch.vertexEnd]]

\* UIBatch::Merge(batch) called on self: [ok, self], the return value and the
\* accumulator afterwards
Merge(self, batch) ==
    IF \/ batch.blendMode # self.blendMode
       \/ batch.scissor # self.scissor
       \/ batch.texture # self.texture
       \/ batch.vertexData # self.vertexData
       \/ batch.vertexStart # self.vertexEnd
    THEN [ok |-> FALSE, self |-> self]
    ELSE [ok |-> TRUE, self |-> [self EXCEPT !.vertexEnd = batch.vertexEnd]]

\* UIBatch::AddOrMerge(batch, batches): the list afterwards
AddOrMerge(batch, list) ==
    IF batch.vertexEnd = batch.vertexStart THEN list
    ELSE IF list # <<>> /\ Merge(list[Len(list)], batch).ok
         THEN [list EXCEPT ![Len(list)] = Merge(@, batch).self]
         ELSE Append(list, batch)

----------------------------------------------------------------------------
(* The primitives of a UIBatch.  The vertex buffer of a batch under         *)
(* construction holds one entry per quad (two triangles, six vertices); a   *)
(* batch's range counts quads.  A colour is its alpha byte.  An owning       *)
(* element is given by the alpha of its colour, its derived opacity and      *)
(* whether it has a colour gradient; it lies at the screen's origin.         *)

\* the alpha bytes of the model: transparent, half and opaque
Alphas == {0, 128, 255}

Min(a, b) == IF a < b THEN a ELSE b

\* Color::ToUInt of a colour whose alpha a is multiplied by the opacity o
ScaleAlpha(a, o) == (a * o) \div 255

\* UIElement::GetDerivedColor().ToUInt() & 0xff000000, as an alpha byte
DerivedAlpha(element) == ScaleAlpha(element.colorAlpha, element.derivedOpacity)

\* UIBatch::SetDefaultColor
SetDefaultColor(b) ==
    IF ~b.element.null
    THEN [b EXCEPT !.color = DerivedAlpha(b.element),
                   !.useGradient = b.element.hasColorGradient]
    ELSE [b EXCEPT !.color = 255, !.useGradient = FALSE]

\* UIBatch::UIBatch(element, blendMode, scissor, texture, vertexData)
UIBatchCtor(element, blendMode, buffer) ==
    SetDefaultColor([element |-> element, blendMode |-> blendMode, vertexData |-> "vertexData_",
                     color |-> 0, useGradient |-> FALSE,
                     vertexStart |-> Len(buffer), vertexEnd |-> Len(buffer)])

\* UIBatch::SetColor(color, overrideAlpha), color given by its alpha byte
BatchSetColor(b, color, overrideAlpha) ==
    [b EXCEPT !.useGradient = FALSE,
              !.color = IF overrideAlpha \/ b.element.null THEN color
                        ELSE ScaleAlpha(color, b.element.derivedOpacity)]

\* A quad-building state q is [batch, vertexData, nullDeref, hang].
QuadState(b, buffer) == [batch |-> b, vertexData |-> buffer, nullDeref |-> FALSE, hang |-> FALSE]

\* the tail of the AddQuad variants: six vertices appended, vertexEnd_ moved
PushQuad(q, x, y, width, height) ==
    [q EXCEPT !.vertexData = Append(@, [x |-> x, y |-> y, width |-> width, height |-> height]),
              !.batch.vertexEnd = Len(q.vertexData) + 1]

\* an alpha test that lets every colour pass
InvisibleNever(b) == FALSE

\* the solid colour is invisible: !useGradient_ and !(color_ & 0xff000000)
Invisible(b) == ~b.useGradient /\ b.color = 0

\* UIBatch::AddQuad(x, y, width, height, texOffsetX, texOffsetY, texWidth, texHeight);
\* it reads the screen position of element_
AddQuad(q, x, y, width, height) ==
    IF Invisible(q.batch) THEN q
    ELSE IF q.batch.element.null
    THEN PushQuad([q EXCEPT !.nullDeref = TRUE], x, y, width, height)
    ELSE PushQuad(q, x, y, width, height)

----------------------------------------------------------------------------
(* The batch collector (UI::RenderUpdate, UI::GetBatches).  A collection    *)
(* state r is a record of the list batches, the vertex buffer vertexData    *)
(* (per quad the element that wrote it and the pass that visited it), the   *)
(* children lists ch, the pass, and nonModal, the batch count after the     *)
(* normal root.                                                             *)

\* BorderImage::GetBatches, the blend mode of the batch
BatchBlendMode(img) ==
    IF img.blendMode = "BLEND_REPLACE" /\ ~img.allOpaque THEN "BLEND_ALPHA" ELSE img.blendMode

\* UIElement::GetDerivedOpacity(): the product of the opacities of the element
\* and of its ancestors; the roots of the UI are opaque
RECURSIVE DerivedOpacity(_)
DerivedOpacity(n) ==
    IF n \notin Elems THEN 255 ELSE ScaleAlpha(image[n].opacity, DerivedOpacity(parent[n]))

\* BorderImage::GetBatches, allOpaque: the derived opacity and the corner
\* colours are opaque
AllOpaque(e) == [image[e] EXCEPT !.allOpaque = @ /\ DerivedOpacity(e) = 255]

\* the element an UIBatch of e reads its colour and opacity from
QuadElement(e) == [null |-> FALSE, colorAlpha |-> 255, derivedOpacity |-> DerivedOpacity(e),
                   hasColorGradient |-> FALSE]

\* BorderImage::GetBatches with border_ zero: the one quad of the inner rect,
\* if the element has a size and its derived colour is not transparent
Quads(e) ==
    IF Size(e)[1] > 0 /\ Size(e)[2] > 0 /\ DerivedAlpha(QuadElement(e)) # 0 THEN 1 ELSE 0

\* the batch BorderImage::GetBatches builds: it starts at the end of the buffer
ElementBatch(r, e, currentScissor) ==
    [element |-> e, blendMode |-> BatchBlendMode(AllOpaque(e)), scissor |-> currentScissor,
     texture |-> image[e].texture, customMaterial |-> image[e].material,
     vertexData |-> "vertexData_",
     vertexStart |-> Len(r.vertexData), vertexEnd |-> Len(r.vertexData) + Quads(e)]

\* BorderImage::GetBatches(batches, vertexData, currentScissor)
ElementGetBatches(r, e, currentScissor) ==
    [r EXCEPT !.batches = AddOrMerge(ElementBatch(r, e, currentScissor), @),
              !.vertexData = @ \o [i \in 1 .. Quads(e) |-> [element |-> e, pass |-> r.pass]]]

\* UIElement::IsWithinScissor(currentScissor); a scissor is <<left, top, right, bottom>>
IsWithinScissor(e, currentScissor) ==
    /\ visible[e]
    /\ ScreenPosition(e)[1] < currentScissor[3]
    /\ ScreenPosition(e)[1] + Size(e)[1] > currentScissor[1]
    /\ ScreenPosition(e)[2] < currentScissor[4]
    /\ ScreenPosition(e)[2] + Size(e)[2] > currentScissor[2]

\* UIElement::AdjustScissor(currentScissor): no element clips its children
AdjustScissor(n, currentScissor) == currentScissor

\* UIElement::GetTraversalMode(): the UI constructor makes both roots depth-first
TraversalMode(n) == IF n \in {Root, ModalRoot} THEN "TM_DEPTH_FIRST" ELSE "TM_BREADTH_FIRST"

\* a partition into runs of one child each
RunEndOne(chs, j, p) == j + 1

\* the end of the run of children of priority p that starts at j
RECURSIVE RunEnd(_, _, _)
RunEnd(chs, j, p) ==
    IF j <= Len(chs) /\ Priority(chs[j]) = p THEN RunEnd(chs, j + 1, p) ELSE j

RECURSIVE GetBatches(_, _, _)
RECURSIVE DepthFirst(_, _, _, _)
RECURSIVE BreadthFirst(_, _, _, _)
RECURSIVE BreadthOwn(_, _, _, _, _)
RECURSIVE BreadthRecurse(_, _, _, _, _)

\* UI::GetBatches, the recursion into a child that is visible
GetBatchesIfVisible(r, c, currentScissor) ==
    IF visible[c] THEN GetBatches(r, c, currentScissor) ELSE r

\* UI::GetBatches, the own batch of a child that is within the scissor
OwnBatchIfWithin(r, c, currentScissor) ==
    IF IsWithinScissor(c, currentScissor) THEN ElementGetBatches(r, c, currentScissor) ELSE r

\* a traversal that emits the own batches of the children before their subtrees
DepthFirstAsBreadth(r, chs, i, currentScissor) == BreadthFirst(r, chs, i, currentScissor)

\* UI::GetBatches, depth-first: each child and its children right after it
DepthFirst(r, chs, i, currentScissor) ==
    IF i > Len(chs) THEN r
    ELSE IF IsCursor(chs[i]) THEN DepthFirst(r, chs, i + 1, currentScissor)
    ELSE DepthFirst(GetBatchesIfVisible(OwnBatchIfWithin(r, chs[i], currentScissor), chs[i],
                                        currentScissor),
                    chs, i + 1, currentScissor)

\* UI::GetBatches, breadth-first: the own batches of the children k .. j-1
BreadthOwn(r, chs, k, j, currentScissor) ==
    IF k >= j THEN r
    ELSE IF IsCursor(chs[k]) THEN BreadthOwn(r, chs, k + 1, j, currentScissor)
    ELSE BreadthOwn(OwnBatchIfWithin(r, chs[k], currentScissor), chs, k + 1, j, currentScissor)

\* UI::GetBatches, breadth-first: the recursion into the children k .. j-1
BreadthRecurse(r, chs, k, j, currentScissor) ==
    IF k >= j THEN r
    ELSE IF IsCursor(chs[k]) THEN BreadthRecurse(r, chs, k + 1, j, currentScissor)
    ELSE BreadthRecurse(GetBatchesIfVisible(r, chs[k], currentScissor), chs, k + 1, j,
                        currentScissor)

\* UI::GetBatches, breadth-first: one run i .. j-1 of children of equal priority
BreadthRun(r, chs, i, j, currentScissor) ==
    BreadthFirst(BreadthRecurse(BreadthOwn(r, chs, i, j, currentScissor), chs, i, j,
                                currentScissor),
                 chs, j, currentScissor)

BreadthFirst(r, chs, i, currentScissor) ==
    IF i > Len(chs) THEN r
    ELSE BreadthRun(r, chs, i, RunEnd(chs, i, Priority(chs[i])), currentScissor)

\* UI::GetBatches past the sort of the children
GetBatchesSorted(r, element, currentScissor) ==
    IF r.ch[element] = <<>> THEN r
    ELSE IF TraversalMode(element) = "TM_BREADTH_FIRST"
         THEN BreadthFirst(r, r.ch[element], 1, currentScissor)
         ELSE DepthFirst(r, r.ch[element], 1, currentScissor)

\* UI::GetBatches past AdjustScissor
GetBatchesClipped(r, element, currentScissor) ==
    IF currentScissor[1] = currentScissor[3] \/ currentScissor[2] = currentScissor[4] THEN r
    ELSE GetBatchesSorted([r EXCEPT !.ch[element] = SortChildren(@)], element, currentScissor)

\* UI::GetBatches(batches, vertexData, element, currentScissor)
GetBatches(r, element, currentScissor) ==
    GetBatchesClipped(r, element, AdjustScissor(element, currentScissor))

\* UI::RenderUpdate: the scissor of the root, at position (0, 0)
RootScissor == <<0, 0, RootW, RootH>>

\* UI::RenderUpdate, lines 436-450: the lists are cleared, the normal root is
\* collected and the batch count is kept
RenderNormal(r) == GetBatches([r EXCEPT !.batches = <<>>, !.vertexData = <<>>, !.pass = "normal"],
                              Root, RootScissor)
MarkNonModal(r) == [r EXCEPT !.nonModal = Len(r.batches), !.pass = "modal"]

\* UI::RenderUpdate, line 455: the modal root
RenderModal(r) == [GetBatches(r, ModalRoot, RootScissor) EXCEPT !.pass = "cursor"]

\* UI::RenderUpdate, lines 457-466: the cursor and its children, if the cursor
\* is visible and the operating system's cursor is not
RenderCursor(r) ==
    IF input.cursor # Null /\ visible[input.cursor] /\ ~input.cursorVisible
    THEN GetBatches(ElementGetBatches(r, input.cursor, RootScissor), input.cursor, RootScissor)
    ELSE r

----------------------------------------------------------------------------
(* Initial states.                                                         *)

NoDoubleClick == [element |-> Null, firstPos |-> <<0, 0>>, timer |-> 0, lastButtons |-> {}]
NoInput == [mouseButtons |-> {}, usingTouchInput |-> FALSE, cursorVisible |-> TRUE,
            mouseGrabbed |-> FALSE, mousePos |-> <<0, 0>>, cursor |-> Null,
            touches |-> <<>>, touchDragElements |-> [e \in Elems |-> {}]]
\* BorderImage::BorderImage: BLEND_REPLACE, no texture, no material; the
\* opacity and the corner colours are opaque
NoImage == [blendMode |-> "BLEND_REPLACE", texture |-> Null, material |-> Null,
            allOpaque |-> TRUE, opacity |-> 255]
\* the batches passed to AddOrMerge so far: whether there was one, their number,
\* the first of them, the end of the last, and whether each had the render state and vertex
\* buffer of the first and started where the one before it ended
NoRun == [any |-> FALSE, uniform |-> TRUE, first |-> NoBatch, end |-> 0, count |-> 0]
\* a null element_ of a UIBatch
NoQuadElement == [null |-> TRUE, colorAlpha |-> 0, derivedOpacity |-> 0,
                  hasColorGradient |-> FALSE]
\* UIBatch::UIBatch(): no element, no vertex buffer, an empty range, opaque white
NoUIBatch == [element |-> NoQuadElement, blendMode |-> "BLEND_REPLACE", vertexData |-> Null,
              color |-> 255, useGradient |-> FALSE, vertexStart |-> 0, vertexEnd |-> 0]
NoHistory == [made |-> {}, before |-> [el |-> Null],
              begins |-> [e \in Elems |-> 0],
              presses |-> 0, destroyed |-> {}, run |-> NoRun, frames |-> 0,
              staleDeref |-> FALSE]

\* The scene the application built from the elements of created: A with its
\* child B, and the windows W and P under the root in the order rootOrder.
SceneParent(created) ==
    [n \in Nodes |->
        IF n \in created /\ n = "B" THEN "A"
        ELSE IF n \in created /\ n = "D" THEN "C"
        ELSE IF n \in created /\ n = "R" THEN "W"
        ELSE IF n \in created /\ n = "K" THEN "H"
        ELSE IF n \in created /\ n # "C" THEN Root ELSE Null]

SceneChildren(created, rootOrder) ==
    [n \in Nodes |->
        IF n = Root THEN rootOrder
        ELSE IF n = "A" /\ "B" \in created THEN <<"B">>
        ELSE IF n = "C" /\ "D" \in created THEN <<"D">>
        ELSE IF n = "W" /\ "R" \in created THEN <<"R">>
        ELSE IF n = "H" /\ "K" \in created THEN <<"K">> ELSE <<>>]

\* The state after construction and after the application built a tree of the
\* elements of created; P is a popup whose origin is the element origin.
InitTree(created, sceneParent, sceneChildren, origin) ==
    /\ alive   = [e \in Elems |-> e \in created]
    /\ enabled = [e \in Elems |-> TRUE]
    /\ visible = [e \in Elems |-> TRUE]
    /\ parent  = sceneParent
    /\ children = sceneChildren
    /\ vars = [e \in Elems |-> IF e = "P" THEN [NoVars EXCEPT !.origin = origin] ELSE NoVars]
    /\ focusElement = Null
    /\ dragElements = <<>>
    /\ dragElementsCount = 0
    /\ dragConfirmedCount = 0
    /\ dragElementsConfirmed = <<>>
    /\ doubleClick = NoDoubleClick
    /\ hoveredElements = {}
    /\ input = NoInput
    /\ crashed = FALSE
    /\ fired = <<>>
    /\ lastOp = [op |-> "Init"]
    /\ history = NoHistory
    /\ image = [e \in Elems |-> NoImage]
    /\ batches = <<>>
    /\ vertexData = <<>>
    /\ nonModalBatchSize = 0
    /\ uiBatch = NoUIBatch
    /\ renderToTexture = <<>>

InitScene(created, rootOrder) ==
    InitTree(created, SceneParent(created), SceneChildren(created, rootOrder), "B")

----------------------------------------------------------------------------
(* Operations the application calls on the UI subsystem.                   *)

\* UI::SetModalElement(modalElement, enable), as Window::SetModal calls it
CallSetModalElement(modalElement, enable) ==
    LET r == SetModalElement(Tree, modalElement, enable) IN
    /\ ~crashed
    /\ parent' = r.t.parent
    /\ children' = r.t.children
    /\ vars' = r.t.vars
    /\ fired' = <<>>
    /\ lastOp' = [op |-> "SetModalElement", element |-> modalElement, enable |-> enable,
                  ok |-> r.ok, before |-> history.before]
    /\ history' = [history EXCEPT
           !.made = IF ~r.ok THEN @
                    ELSE IF enable THEN @ \cup {modalElement} ELSE @ \ {modalElement},
           !.before = IF r.ok /\ enable
                      THEN [el |-> modalElement, t |-> Tree]
                      ELSE [el |-> Null]]
    /\ UNCHANGED <<image, renderVars, flagVars, focusElement, routerVars>>

\* UI::SetFocusElement(element, false), as UIElement::SetFocus calls it
CallSetFocusElement(element) ==
    LET r == SetFocusElement(focusElement, element) IN
    /\ ~crashed
    /\ focusElement' = r.focus
    /\ fired' = r.fired
    /\ lastOp' = [op |-> "SetFocusElement", element |-> element, oldFocus |-> focusElement,
                  hadModal |-> HasModalElement]
    /\ history' = [history EXCEPT !.before = [el |-> Null]]
    /\ UNCHANGED <<image, renderVars, flagVars, treeVars, routerVars>>

\* UI::GetElementAt(position, enabledOnly), a query that also sorts the children
\* lists it visits
CallGetElementAt(position, enabledOnly) ==
    LET r == GetElementAt(children, position, enabledOnly) IN
    /\ ~crashed
    /\ children' = r.ch
    /\ fired' = <<>>
    /\ lastOp' = [op |-> "GetElementAt", position |-> position, enabledOnly |-> enabledOnly,
                  result |-> r.result, hadModal |-> HasModalElement]
    /\ history' = [history EXCEPT !.before = [el |-> Null]]
    /\ UNCHANGED <<image, renderVars, flagVars, parent, vars, focusElement, routerVars>>

----------------------------------------------------------------------------
(* Input events and the frame update.                                      *)

\* Mouse buttons (bit indices of MOUSEB_LEFT and MOUSEB_MIDDLE)
Buttons == {0, 1}

\* A run holds at most MaxPresses button presses and touch begins
MaxPresses == 2

\* At most MaxOff of these hold at a time: an element is destroyed, an element is
\* disabled, an element is hidden, the operating system cursor is hidden
MaxOff == 1

OffCount ==
    Cardinality(history.destroyed) + Cardinality({e \in Elems : ~enabled[e]})
    + Cardinality({e \in Elems : ~visible[e]}) + (IF input.cursorVisible THEN 0 ELSE 1)

RouterState ==
    [ch |-> children, focus |-> focusElement, drag |-> dragElements,
     count |-> dragElementsCount, confirmed |-> dragConfirmedCount,
     cache |-> dragElementsConfirmed, dbl |-> doubleClick,
     hover |-> hoveredElements, flagged |-> {}, fired |-> <<>>,
     begins |-> history.begins, nullDeref |-> FALSE,
     kill |-> NoKill, dead |-> {}, killed |-> {}, staleDeref |-> FALSE,
     updated |-> <<>>]

\* the router state of a pass in which the application's handler k destroys
RouterStateKill(k) == [RouterState EXCEPT !.kill = k]

\* the state a handler leaves behind.  A dereferenced null element or expired
\* weak reference ends the process or is survived, as the build decides.
Leave(rs, op, pressed) ==
    /\ children' = rs.ch
    /\ focusElement' = rs.focus
    /\ dragElements' = rs.drag
    /\ dragElementsCount' = rs.count
    /\ dragConfirmedCount' = rs.confirmed
    /\ dragElementsConfirmed' = rs.cache
    /\ doubleClick' = rs.dbl
    /\ hoveredElements' = rs.hover
    /\ fired' = rs.fired
    /\ crashed' \in (IF rs.nullDeref \/ rs.staleDeref THEN BOOLEAN ELSE {FALSE})
    /\ lastOp' = op
    /\ history' = [history EXCEPT !.begins = rs.begins, !.before = [el |-> Null],
                                  !.presses = @ + pressed,
                                  !.destroyed = @ \cup rs.killed,
                                  !.staleDeref = rs.staleDeref]

\* UI::HandleMouseButtonDown
HandleMouseButtonDown(button) ==
    /\ ~crashed
    /\ button \notin input.mouseButtons
    /\ history.presses < MaxPresses
    /\ LET in1 == [input EXCEPT !.mouseButtons = @ \cup {button}, !.usingTouchInput = FALSE]
           rs1 == ProcessDragCancel(RouterState, in1.usingTouchInput)
           rs2 == IF ~in1.mouseGrabbed
                  THEN ProcessClickBegin(rs1, in1.mousePos, button, in1.mouseButtons,
                                         in1.usingTouchInput, in1.cursorVisible)
                  ELSE rs1
       IN  /\ input' = in1
           /\ Leave(rs2, [op |-> "MouseButtonDown", button |-> button], 1)
    /\ UNCHANGED <<image, renderVars, flagVars, parent, vars>>

\* UI::HandleMouseButtonUp
HandleMouseButtonUp(button) ==
    /\ ~crashed
    /\ button \in input.mouseButtons
    /\ LET in1 == [input EXCEPT !.mouseButtons = @ \ {button}]
           rs1 == ProcessClickEnd(RouterState, in1.mousePos, button, in1.cursorVisible)
       IN  /\ input' = in1
           /\ Leave(rs1, [op |-> "MouseButtonUp", button |-> button], 0)
    /\ UNCHANGED <<image, renderVars, flagVars, parent, vars>>

\* UI::HandleMouseMove; no software cursor is set (cursor_ is null)
HandleMouseMove(position) ==
    /\ ~crashed
    /\ position # input.mousePos
    /\ LET in1 == [input EXCEPT !.mousePos = position, !.usingTouchInput = FALSE]
           rs1 == ProcessMove(RouterState, position, VecSub(position, input.mousePos),
                              in1.mouseButtons, in1.usingTouchInput, in1.cursorVisible,
                              in1.mouseGrabbed)
       IN  /\ input' = in1
           /\ Leave(rs1, [op |-> "MouseMove"], 0)
    /\ UNCHANGED <<image, renderVars, flagVars, parent, vars>>

\* what the elements destroyed inside a pass leave behind
LeaveKill(rs, op) ==
    /\ Leave(rs, op, 0)
    /\ alive' = [x \in Elems |-> alive[x] /\ x \notin rs.dead]
    /\ parent' = [n \in Nodes |-> IF n \in rs.dead THEN Null ELSE parent[n]]

\* UI::HandleMouseMove while the application's handler k destroys its victim
MouseMoveKill(position, k) ==
    /\ ~crashed
    /\ position # input.mousePos
    /\ OffCount < MaxOff
    /\ input' = [input EXCEPT !.mousePos = position, !.usingTouchInput = FALSE]
    /\ LeaveKill(ProcessMove(RouterStateKill(k), position, VecSub(position, input.mousePos),
                             input.mouseButtons, FALSE, input.cursorVisible,
                             input.mouseGrabbed),
                 [op |-> "MouseMove", kill |-> k])
    /\ UNCHANGED <<image, renderVars, enabled, visible, vars>>

\* a key test that never takes the drag cancel
IsDragCancelKeyNever(key) == FALSE

\* UI::HandleKeyDown, line 2069: the Escape key while a drag is tracked
IsDragCancelKey(key) == key = "KEY_ESCAPE" /\ dragElementsCount > 0

\* UI::HandleKeyDown for KEY_ESCAPE and for a key that is neither Escape nor Tab
HandleKeyDown(key) ==
    /\ ~crashed
    /\ LET rs == RouterState
           t  == Tree
           last == children[ModalRoot][Len(children[ModalRoot])]
       IN
       IF IsDragCancelKey(key)
       THEN /\ Leave(ProcessDragCancel(rs, input.usingTouchInput), [op |-> "KeyDown", key |-> key], 0)
            /\ UNCHANGED <<parent, vars>>
       ELSE IF key = "KEY_ESCAPE" /\ HasModalElement
       THEN IF vars[last].origin # Null
            THEN LET f == SetFocusElement(focusElement, Null)
                 IN  /\ Leave(Fire([rs EXCEPT !.focus = f.focus], f.fired),
                              [op |-> "KeyDown", key |-> key], 0)
                     /\ UNCHANGED <<parent, vars>>
            ELSE LET r == IF IsWindow(last) THEN SetModalElement(t, last, FALSE)
                          ELSE [ok |-> FALSE, t |-> t]
                 IN  /\ Leave([rs EXCEPT !.ch = r.t.children], [op |-> "KeyDown", key |-> key], 0)
                     /\ parent' = r.t.parent
                     /\ vars' = r.t.vars
       ELSE IF focusElement # Null
       THEN IF key = "KEY_ESCAPE" /\ FocusMode(focusElement) = "FM_FOCUSABLE_DEFOCUSABLE"
            THEN LET f == SetFocusElement(focusElement, Null)
                 IN  /\ Leave(Fire([rs EXCEPT !.focus = f.focus], f.fired),
                              [op |-> "KeyDown", key |-> key], 0)
                     /\ UNCHANGED <<parent, vars>>
            ELSE /\ Leave(Fire(rs, <<EvArg("OnKey", focusElement, key)>>),
                          [op |-> "KeyDown", key |-> key], 0)
                 /\ UNCHANGED <<parent, vars>>
       ELSE /\ Leave(rs, [op |-> "KeyDown", key |-> key], 0)
            /\ UNCHANGED <<parent, vars>>
    /\ UNCHANGED <<image, renderVars, flagVars, input>>

\* Touch ids; MakeTouchIDMask(id) is bit id of a button set
TouchIds == {0}

\* index in Input's touch list of the touch with this id, 0 when it is not down
TouchIndex(id) ==
    IF \E i \in 1 .. Len(input.touches) : input.touches[i].id = id
    THEN CHOOSE i \in 1 .. Len(input.touches) : input.touches[i].id = id
    ELSE 0

\* UI::HandleTouchBegin once the element under the finger is known
TouchBeginHit(id, pos, hit) ==
    /\ input' = [input EXCEPT
                    !.usingTouchInput = TRUE,
                    !.touches = Append(@, [id |-> id, position |-> pos]),
                    !.touchDragElements =
                        [e \in Elems |-> IF e = hit.result THEN @[e] \cup {id} ELSE @[e]]]
    /\ Leave(ProcessClickBegin(Sorted(RouterState, hit), pos, id,
                               IF hit.result # Null THEN input.touchDragElements[hit.result]
                               ELSE {id},
                               TRUE, TRUE),
             [op |-> "TouchBegin", button |-> id], 1)

\* UI::HandleTouchBegin
HandleTouchBegin(id, pos) ==
    /\ ~crashed
    /\ TouchIndex(id) = 0
    /\ history.presses < MaxPresses
    /\ ~input.mouseGrabbed
    /\ TouchBeginHit(id, pos, GetElementAt(children, pos, TRUE))
    /\ UNCHANGED <<image, renderVars, flagVars, parent, vars>>

\* UI::HandleTouchEnd, the hover that precedes the click end
TouchEndHover(rs, element) ==
    IF element # Null /\ enabled[element] THEN Fire(rs, <<Ev("OnHover", element)>>) ELSE rs

\* UI::HandleTouchEnd once the element under the finger is known
TouchEndHit(id, i, pos, hit) ==
    /\ input' = [input EXCEPT
                    !.touches = RemoveAt(@, i),
                    !.touchDragElements =
                        [e \in Elems |-> IF id \in @[e] THEN {} ELSE @[e]]]
    /\ Leave(ProcessClickEnd(TouchEndHover(Sorted(RouterState, hit), hit.result), pos, id, TRUE),
             [op |-> "TouchEnd", button |-> id], 0)

TouchEndAt(id, i, pos) == TouchEndHit(id, i, pos, GetElementAt(children, pos, TRUE))

\* UI::HandleTouchEnd; the finger is lifted where it was last seen
HandleTouchEnd(id) ==
    /\ ~crashed
    /\ TouchIndex(id) # 0
    /\ TouchEndAt(id, TouchIndex(id), input.touches[TouchIndex(id)].position)
    /\ UNCHANGED <<image, renderVars, flagVars, parent, vars>>

\* UI::HandleTouchMove
HandleTouchMove(id, pos) ==
    /\ ~crashed
    /\ TouchIndex(id) # 0
    /\ pos # input.touches[TouchIndex(id)].position
    /\ LET old == input.touches[TouchIndex(id)].position
           rs1 == ProcessMove(RouterState, pos, VecSub(pos, old), {id}, TRUE, TRUE,
                              input.mouseGrabbed)
       IN  /\ input' = [input EXCEPT !.usingTouchInput = TRUE,
                                     !.touches[TouchIndex(id)].position = pos]
           /\ Leave(rs1, [op |-> "TouchMove", button |-> id], 0)
    /\ UNCHANGED <<image, renderVars, flagVars, parent, vars>>

RECURSIVE TouchHover(_, _)
\* the touch loop of UI::Update: ProcessHover at the position of each touch
TouchHover(rs, i) ==
    IF i > Len(input.touches) THEN rs
    ELSE TouchHover(ProcessHover(rs, input.touches[i].position), i + 1)

\* UI::Update, lines 375-381: the hover under the mouse cursor
UpdateMouseHover(rs) ==
    IF ~input.mouseGrabbed /\ ~input.usingTouchInput /\ input.cursorVisible
    THEN ProcessHover(rs, input.mousePos) ELSE rs

\* UI::Update(timeStep): the time-based drag begin, the hover pass and the end of
\* stale hovers.  The element updates that follow change nothing the router reads.
\* UI::Update(timeStep) from a router state on
UpdatePass(rs, mouseGrabbed) ==
    UpdateElement(UpdateElement(UpdateHoverEnd(TouchHover(UpdateMouseHover(
        UpdateDragBegin(rs, mouseGrabbed)), 1)), Root), ModalRoot)

LeaveUpdate(rs) == Leave(rs, [op |-> "Update", updated |-> rs.updated], 0)

Update ==
    /\ ~crashed
    /\ LeaveUpdate(UpdatePass(RouterState, input.mouseGrabbed))
    /\ UNCHANGED <<image, renderVars, flagVars, parent, vars, input>>

\* UI::GetDragElements, the loop over the registry: an expired entry is erased
\* (which clears the cache), an entry no longer pending is pushed to the cache
RECURSIVE ConfirmedLoop(_, _)
ConfirmedLoop(rs, i) ==
    IF i > Len(rs.drag) THEN rs
    ELSE IF ~Live(rs.drag[i].element) THEN ConfirmedLoop(DragElementErase(rs, i), i)
    ELSE IF ~rs.drag[i].dragBeginPending
    THEN ConfirmedLoop([rs EXCEPT !.cache = Append(@, rs.drag[i].element)], i + 1)
    ELSE ConfirmedLoop(rs, i + 1)

\* UI::GetDragElements(): a non-empty cache is the answer (lines 939-940),
\* otherwise the loop fills it; the router state it leaves, whose cache it returns
GetDragElements(rs) == IF rs.cache # <<>> THEN rs ELSE ConfirmedLoop(rs, 1)

\* the application calls UI::GetDragElements; rs is the state the call leaves
CallGetDragElements(rs) ==
    /\ ~crashed
    /\ Leave(rs, [op |-> "GetDragElements", returned |-> rs.cache], 0)
    /\ UNCHANGED <<image, renderVars, flagVars, parent, vars, input>>

LeaveUpdateKill(rs, k) ==
    LeaveKill(rs, [op |-> "Update", kill |-> k, updated |-> rs.updated])

\* UI::Update(timeStep) while the application's handler k destroys its victim
UpdateKill(k) ==
    /\ ~crashed
    /\ OffCount < MaxOff
    /\ LeaveUpdateKill(UpdatePass(RouterStateKill(k), input.mouseGrabbed), k)
    /\ UNCHANGED <<image, renderVars, enabled, visible, vars, input>>

\* Time passes: every running timer advances by one step.  A timer is kept up
\* to MaxMSec, beyond which no comparison in the code tells two values apart;
\* dragBeginTimer is read while the entry is pending only and is kept until then.
Tick ==
    /\ ~crashed
    /\ LET step(t) == IF t + TickMSec > MaxMSec THEN MaxMSec ELSE t + TickMSec
           running(d) == d.dragBeginPending /\ d.dragBeginTimer < MaxMSec
       IN
       /\ \/ doubleClick.timer < MaxMSec
          \/ \E i \in 1 .. Len(dragElements) : running(dragElements[i])
       /\ doubleClick' = [doubleClick EXCEPT !.timer = step(@)]
       /\ dragElements' = [i \in 1 .. Len(dragElements) |->
                              IF running(dragElements[i])
                              THEN [dragElements[i] EXCEPT !.dragBeginTimer = step(@)]
                              ELSE dragElements[i]]
    /\ fired' = <<>>
    /\ lastOp' = [op |-> "Tick"]
    /\ history' = [history EXCEPT !.before = [el |-> Null]]
    /\ UNCHANGED <<image, renderVars, flagVars, treeVars, focusElement, dragElementsCount, dragConfirmedCount, dragElementsConfirmed,
                   hoveredElements, input, crashed>>

\* The application removes element e from the tree and drops its last reference:
\* e and its descendants are destroyed and every WeakPtr to them expires.
Destroy(e) ==
    /\ ~crashed
    /\ alive[e]
    /\ OffCount < MaxOff
    /\ LET dead == Subtree(e) IN
       /\ alive' = [x \in Elems |-> alive[x] /\ x \notin dead]
       /\ parent' = [n \in Nodes |-> IF n \in dead THEN Null ELSE parent[n]]
       /\ children' = [n \in Nodes |-> IF n \in dead THEN <<>>
                                       ELSE IF n = parent[e] THEN Without(children[n], e)
                                       ELSE children[n]]
       /\ focusElement' = IF focusElement \in dead THEN Null ELSE focusElement
       /\ doubleClick' = [doubleClick EXCEPT !.element = IF @ \in dead THEN Null ELSE @]
    /\ fired' = <<>>
    /\ lastOp' = [op |-> "Destroy", element |-> e]
    /\ history' = [history EXCEPT !.before = [el |-> Null], !.destroyed = @ \cup {e}]
    /\ UNCHANGED <<image, renderVars, enabled, visible, vars, dragElements, dragElementsCount,
                   dragConfirmedCount, dragElementsConfirmed, hoveredElements, input, crashed>>

\* UIElement::SetEnabled and UIElement::SetVisible, called by the application
SetEnabled(e, enable) ==
    /\ ~crashed
    /\ alive[e] /\ enabled[e] # enable
    /\ enable \/ OffCount < MaxOff
    /\ enabled' = [enabled EXCEPT ![e] = enable]
    /\ fired' = <<>>
    /\ lastOp' = [op |-> "SetEnabled", element |-> e]
    /\ history' = [history EXCEPT !.before = [el |-> Null]]
    /\ UNCHANGED <<image, renderVars, alive, visible, treeVars, focusElement, routerVars>>

SetVisible(e, enable) ==
    /\ ~crashed
    /\ alive[e] /\ visible[e] # enable
    /\ enable \/ OffCount < MaxOff
    /\ visible' = [visible EXCEPT ![e] = enable]
    /\ fired' = <<>>
    /\ lastOp' = [op |-> "SetVisible", element |-> e]
    /\ history' = [history EXCEPT !.before = [el |-> Null]]
    /\ UNCHANGED <<image, renderVars, alive, enabled, treeVars, focusElement, routerVars>>

\* Input::SetMouseVisible, called by the application: the operating system cursor
\* is shown or hidden (no software cursor is set)
SetMouseVisible(enable) ==
    /\ ~crashed
    /\ input.cursorVisible # enable
    /\ enable \/ OffCount < MaxOff
    /\ input' = [input EXCEPT !.cursorVisible = enable]
    /\ fired' = <<>>
    /\ lastOp' = [op |-> "SetMouseVisible"]
    /\ history' = [history EXCEPT !.before = [el |-> Null]]
    /\ UNCHANGED <<image, renderVars, flagVars, treeVars, focusElement, dragElements, dragElementsCount,
                   dragConfirmedCount, dragElementsConfirmed, doubleClick, hoveredElements, crashed>>

\* UI::SetCursor(cursor): the old cursor leaves the root, the new one becomes
\* its last child
SetCursorTree(t, old, cursor) ==
    [t EXCEPT !.children[Root] = IF cursor = Null THEN SelectSeq(@, LAMBDA c : c # old)
                                 ELSE Append(SelectSeq(@, LAMBDA c : c # old), cursor),
              !.parent = [n \in Nodes |-> IF n = cursor /\ cursor # Null THEN Root
                                            ELSE IF n = old THEN Null ELSE @[n]]]

SetCursor(cursor) ==
    /\ ~crashed
    /\ input.cursor # cursor
    /\ parent' = SetCursorTree(Tree, input.cursor, cursor).parent
    /\ children' = SetCursorTree(Tree, input.cursor, cursor).children
    /\ input' = [input EXCEPT !.cursor = cursor]
    /\ fired' = <<>>
    /\ lastOp' = [op |-> "SetCursor", element |-> cursor]
    /\ history' = [history EXCEPT !.before = [el |-> Null]]
    /\ UNCHANGED <<image, renderVars, flagVars, vars, focusElement, dragElements,
                   dragElementsCount, dragConfirmedCount, dragElementsConfirmed, doubleClick, hoveredElements, crashed>>

\* BorderImage::SetTexture(texture)
SetTexture(e, texture) ==
    /\ ~crashed
    /\ alive[e] /\ image[e].texture # texture
    /\ image' = [image EXCEPT ![e].texture = texture]
    /\ fired' = <<>>
    /\ lastOp' = [op |-> "SetTexture", element |-> e]
    /\ history' = [history EXCEPT !.before = [el |-> Null]]
    /\ UNCHANGED <<renderVars, flagVars, treeVars, focusElement, routerVars>>

\* BorderImage::SetMaterial(material)
SetMaterial(e, material) ==
    /\ ~crashed
    /\ alive[e] /\ image[e].material # material
    /\ image' = [image EXCEPT ![e].material = material]
    /\ fired' = <<>>
    /\ lastOp' = [op |-> "SetMaterial", element |-> e]
    /\ history' = [history EXCEPT !.before = [el |-> Null]]
    /\ UNCHANGED <<renderVars, flagVars, treeVars, focusElement, routerVars>>

\* BorderImage::SetBlendMode(mode)
SetBlendMode(e, mode) ==
    /\ ~crashed
    /\ alive[e] /\ image[e].blendMode # mode
    /\ image' = [image EXCEPT ![e].blendMode = mode]
    /\ fired' = <<>>
    /\ lastOp' = [op |-> "SetBlendMode", element |-> e]
    /\ history' = [history EXCEPT !.before = [el |-> Null]]
    /\ UNCHANGED <<renderVars, flagVars, treeVars, focusElement, routerVars>>

\* UI::RenderUpdate, the collection of the batches of the frame
Collect(r) == RenderCursor(RenderModal(MarkNonModal(RenderNormal(r))))

\* UI::RenderUpdate, lines 492-496: the scissor of a surface is the rect of its root
SurfaceScissor(element) ==
    <<Position(element)[1], Position(element)[2],
      Position(element)[1] + Size(element)[1], Position(element)[2] + Size(element)[2]>>

\* UI::RenderUpdate, lines 502-511: the batch that clears the surface, a black
\* quad of the scissor's left, top, right and bottom
ClearQuad(element, scissor, buffer) ==
    AddQuad(QuadState(BatchSetColor(UIBatchCtor(QuadElement(element), "BLEND_REPLACE", buffer),
                                    255, FALSE),
                      buffer),
            scissor[1], scissor[2], scissor[3], scissor[4])

\* a surface whose tree gave no batch gets the clearing batch
ClearIfEmpty(data, q) ==
    IF data.batches # <<>> THEN data
    ELSE [data EXCEPT !.batches = <<q.batch>>, !.vertexData = q.vertexData]

\* the surface data after the batches of its tree were collected into r
SurfaceData(data, r) ==
    ClearIfEmpty([data EXCEPT !.batches = r.batches, !.vertexData = r.vertexData],
                 ClearQuad(data.rootElement, SurfaceScissor(data.rootElement), r.vertexData))

\* the collection of the tree of a surface into its own cleared lists
SurfaceCollect(r, data) ==
    GetBatches([r EXCEPT !.batches = <<>>, !.vertexData = <<>>, !.pass = "texture"],
               data.rootElement, SurfaceScissor(data.rootElement))

\* UI::RenderUpdate, lines 468-515: a surface whose root expired is erased, a
\* surface whose root is disabled keeps the lists of the frame before; s is
\* [ch, list], the children lists and the surfaces visited so far
RECURSIVE RenderToTexture(_, _, _)
RenderSurface(r, s, data, rest) ==
    RenderToTexture(r, [ch |-> SurfaceCollect([r EXCEPT !.ch = s.ch], data).ch,
                        list |-> Append(s.list,
                                        SurfaceData(data,
                                                    SurfaceCollect([r EXCEPT !.ch = s.ch], data)))],
                    rest)
RenderToTexture(r, s, todo) ==
    IF todo = <<>> THEN s
    ELSE IF ~alive[Head(todo).rootElement] THEN RenderToTexture(r, s, Tail(todo))
    ELSE IF enabled[Head(todo).rootElement] THEN RenderSurface(r, s, Head(todo), Tail(todo))
    ELSE RenderToTexture(r, [s EXCEPT !.list = Append(@, Head(todo))], Tail(todo))

\* Frames the engine renders
MaxFrames == 1
FramesLeft == history.frames < MaxFrames

\* the end of UI::RenderUpdate(): r is the collection of the screen, s that of
\* the surfaces
LeaveRender(r, s) ==
    /\ batches' = r.batches
    /\ vertexData' = r.vertexData
    /\ nonModalBatchSize' = r.nonModal
    /\ renderToTexture' = s.list
    /\ children' = s.ch
    /\ fired' = <<>>
    /\ lastOp' = [op |-> "RenderUpdate"]
    /\ history' = [history EXCEPT !.before = [el |-> Null], !.frames = @ + 1]
    /\ UNCHANGED <<image, uiBatch, flagVars, parent, vars, focusElement, routerVars>>

RenderSurfaces(r) == LeaveRender(r, RenderToTexture(r, [ch |-> r.ch, list |-> <<>>],
                                                    renderToTexture))

\* UI::RenderUpdate(), the handler of the engine's render update event
RenderUpdate ==
    /\ ~crashed
    /\ FramesLeft
    /\ RenderSurfaces(Collect([batches |-> batches, vertexData |-> vertexData, ch |-> children,
                               pass |-> "normal", nonModal |-> nonModalBatchSize]))

\* the surface UI::SetElementRenderTexture registers
NoSurface(element) == [rootElement |-> element, batches |-> <<>>, vertexData |-> <<>>]

\* the surfaces other than that of element
RECURSIVE EraseSurface(_, _)
EraseSurface(list, element) ==
    IF list = <<>> THEN <<>>
    ELSE IF Head(list).rootElement = element THEN EraseSurface(Tail(list), element)
    ELSE <<Head(list)>> \o EraseSurface(Tail(list), element)

\* UI::SetElementRenderTexture(element, texture), called by the application with
\* a texture or with null
SetElementRenderTexture(element, texture) ==
    /\ ~crashed
    /\ alive[element]
    /\ renderToTexture' =
           IF texture # Null /\ EraseSurface(renderToTexture, element) = renderToTexture
           THEN Append(renderToTexture, NoSurface(element))
           ELSE IF texture = Null THEN EraseSurface(renderToTexture, element)
           ELSE renderToTexture
    /\ fired' = <<>>
    /\ lastOp' = [op |-> "SetElementRenderTexture", element |-> element, texture |-> texture]
    /\ history' = [history EXCEPT !.before = [el |-> Null]]
    /\ UNCHANGED <<image, batches, vertexData, nonModalBatchSize, uiBatch, flagVars, treeVars,
                   focusElement, routerVars>>

\* UIElement::SetOpacity(opacity), called by the application
SetOpacity(e, opacity) ==
    /\ ~crashed
    /\ alive[e]
    /\ image' = [image EXCEPT ![e].opacity = opacity]
    /\ fired' = <<>>
    /\ lastOp' = [op |-> "SetOpacity", element |-> e, opacity |-> opacity]
    /\ history' = [history EXCEPT !.before = [el |-> Null]]
    /\ UNCHANGED <<renderVars, flagVars, treeVars, focusElement, routerVars>>

----------------------------------------------------------------------------
(* The router specifications: a scene of A and W under the root.           *)

\* the elements the application disables, hides or destroys
Fragile == {"A"}

InitDrag == InitScene({"A", "W"}, <<"A", "W">>)

\* A mouse: buttons, moves, the Escape key, frame updates and the passing of
\* time, while the application disables, hides or destroys an element or hides
\* the cursor.
NextDrag ==
    \/ \E button \in Buttons : HandleMouseButtonDown(button)
    \/ \E button \in Buttons : HandleMouseButtonUp(button)
    \/ \E position \in Positions : HandleMouseMove(position)
    \/ HandleKeyDown("KEY_ESCAPE")
    \/ Update
    \/ Tick
    \/ \E e \in Fragile : Destroy(e)
    \/ \E e \in Fragile : SetEnabled(e, FALSE)
    \/ \E e \in Fragile : SetVisible(e, FALSE)
    \/ SetMouseVisible(FALSE)

SpecDrag == InitDrag /\ [][NextDrag]_vars_all

\* A touch screen and a mouse that stays where it is: touches, mouse buttons,
\* the Escape key, frame updates and the passing of time, with the same
\* interventions of the application.
NextTouch ==
    \/ \E id \in TouchIds, pos \in Positions : HandleTouchBegin(id, pos)
    \/ \E id \in TouchIds : HandleTouchEnd(id)
    \/ \E id \in TouchIds, pos \in Positions : HandleTouchMove(id, pos)
    \/ \E button \in Buttons : HandleMouseButtonDown(button)
    \/ \E button \in Buttons : HandleMouseButtonUp(button)
    \/ HandleKeyDown("KEY_ESCAPE")
    \/ Update
    \/ Tick
    \/ \E e \in Fragile : Destroy(e)
    \/ \E e \in Fragile : SetEnabled(e, FALSE)
    \/ \E e \in Fragile : SetVisible(e, FALSE)
    \/ SetMouseVisible(FALSE)

SpecTouch == InitDrag /\ [][NextTouch]_vars_all

\* A touch screen and a mouse that stays where it is, whose application
\* queries the dragged elements: touches begin, move and end, mouse buttons go
\* down and up, frames pass, and A may be destroyed.
NextConfirmed ==
    \/ \E id \in TouchIds, pos \in Positions : HandleTouchBegin(id, pos)
    \/ \E id \in TouchIds : HandleTouchEnd(id)
    \/ \E id \in TouchIds, pos \in Positions : HandleTouchMove(id, pos)
    \/ \E button \in Buttons : HandleMouseButtonDown(button)
    \/ \E button \in Buttons : HandleMouseButtonUp(button)
    \/ Update
    \/ \E e \in Fragile : Destroy(e)
    \/ CallGetDragElements(GetDragElements(RouterState))

SpecConfirmed == InitDrag /\ [][NextConfirmed]_vars_all

----------------------------------------------------------------------------
(* The focus specification: A with its child B, the windows W and P, and R,  *)
(* a child of W that resets the focus.  The application moves the focus and *)
(* makes windows modal and not.                                             *)

InitFocus == InitScene(Widgets \cup {"R"}, <<"A", "W", "P">>)

NextFocus ==
    \/ \E e \in Widgets \cup {"R", Null} : CallSetFocusElement(e)
    \/ \E e \in {"W", "P"}, enable \in BOOLEAN : CallSetModalElement(e, enable)

SpecFocus == InitFocus /\ [][NextFocus]_vars_all

----------------------------------------------------------------------------
(* The update specification: A with its child B, the windows W and P, and R, *)
(* a child of W.  The engine updates the frame while an element's own update *)
(* destroys the element itself, its parent or a sibling; the application     *)
(* makes windows modal and not.                                              *)

\* the overrides of UIElement::Update that destroy: el's update destroys victim
UpdateKills ==
    {[ev |-> "Update", el |-> k[1], victim |-> k[2]] :
        k \in {<<"A", "A">>, <<"B", "B">>, <<"B", "A">>, <<"A", "W">>, <<"W", "A">>,
               <<"W", "W">>, <<"R", "R">>, <<"R", "W">>}}

InitUpdate == InitScene(Widgets \cup {"R"}, <<"A", "W", "P">>)

NextUpdate ==
    \/ Update
    \/ \E k \in UpdateKills : UpdateKill(k)
    \/ \E e \in {"W", "P"}, enable \in BOOLEAN : CallSetModalElement(e, enable)

SpecUpdate == InitUpdate /\ [][NextUpdate]_vars_all

----------------------------------------------------------------------------
(* The hit-test specification: A with its child B, the windows W and P, the *)
(* panels L and H with H's child K, and the cursor C with its child D.  H is *)
(* created first and sorted last by its priority.  The application sets the *)
(* cursor, hides and disables elements, and hit-tests positions inside the  *)
(* root, on its far edges and outside it.                                   *)

HitPositions == ((0 - 1) .. (RootW + 1)) \X ((0 - 1) .. (RootH + 1))

InitHit == InitScene(Widgets \cup {"C", "D", "L", "H", "K"}, <<"H", "A", "W", "P", "L">>)

NextHit ==
    \/ \E position \in HitPositions, enabledOnly \in BOOLEAN :
           CallGetElementAt(position, enabledOnly)
    \/ \E cursor \in {"C", Null} : SetCursor(cursor)
    \/ \E e \in {"B", "H", "K"}, enable \in BOOLEAN : SetVisible(e, enable)
    \/ \E e \in {"B", "H", "K"}, enable \in BOOLEAN : SetEnabled(e, enable)

SpecHit == InitHit /\ [][NextHit]_vars_all

----------------------------------------------------------------------------
(* The router with handlers that destroy: the scene of SpecDrag, a mouse,   *)
(* frame updates and the passing of time; in a mouse move or a frame update *)
(* a handler the application subscribed to a drag callback or drag event of *)
(* A destroys A or W.                                                       *)

Kills ==
    {[ev |-> "OnDragBegin", el |-> "A", victim |-> "A"],
     [ev |-> "OnDragBegin", el |-> "A", victim |-> "W"],
     [ev |-> "OnDragMove", el |-> "A", victim |-> "A"]}

NextReentrant ==
    \/ \E button \in Buttons : HandleMouseButtonDown(button)
    \/ \E button \in Buttons : HandleMouseButtonUp(button)
    \/ \E position \in Positions : HandleMouseMove(position)
    \/ Update
    \/ Tick
    \/ \E position \in Positions, k \in Kills : MouseMoveKill(position, k)
    \/ \E k \in Kills : UpdateKill(k)

SpecReentrant == InitDrag /\ [][NextReentrant]_vars_all

----------------------------------------------------------------------------
(* The tree, focus and modal specification: every element of the scene     *)
(* exists; the application makes windows modal and not, moves the focus    *)
(* and hit-tests.                                                          *)

InitModal == \E rootOrder \in Perms({"A", "W", "P"}) : InitScene(Widgets, rootOrder)

NextModal ==
    \/ \E e \in Widgets \cup {Null}, enable \in BOOLEAN : CallSetModalElement(e, enable)
    \/ \E e \in Widgets \cup {Null} : CallSetFocusElement(e)
    \/ \E position \in Positions, enabledOnly \in BOOLEAN : CallGetElementAt(position, enabledOnly)

SpecModal == InitModal /\ [][NextModal]_vars_all

----------------------------------------------------------------------------
(* The render specification: every element of the scene exists, C is a     *)
(* cursor with the child D.  The application sets textures, materials and   *)
(* blend modes, makes windows modal, sets the cursor, hides elements and    *)
(* the operating system's cursor; then the engine renders frames.  What the *)
(* application does after the last frame changes no batch of it.            *)

Textures   == {Null, "T"}
Materials  == {Null, "M"}
BlendModes == {"BLEND_REPLACE", "BLEND_ADD"}

InitRender == InitScene(Widgets \cup {"C", "D"}, <<"A", "W", "P">>)

NextRender ==
    \/ \E e \in {"W", "P"}, enable \in BOOLEAN : FramesLeft /\ CallSetModalElement(e, enable)
    \/ \E cursor \in {Null, "C"} : FramesLeft /\ SetCursor(cursor)
    \/ \E texture \in Textures : FramesLeft /\ SetTexture("A", texture)
    \/ \E material \in Materials : FramesLeft /\ SetMaterial("W", material)
    \/ \E mode \in BlendModes : FramesLeft /\ SetBlendMode("D", mode)
    \/ \E e \in {"W", "C"}, enable \in BOOLEAN : FramesLeft /\ SetVisible(e, enable)
    \/ \E enable \in BOOLEAN : FramesLeft /\ SetMouseVisible(enable)
    \/ RenderUpdate

SpecRender == InitRender /\ [][NextRender]_vars_all

----------------------------------------------------------------------------
(* The surface specification: C, which is outside the UI's tree, is the     *)
(* root of a render-to-texture surface and D its child.  The application    *)
(* registers and unregisters the surface, sets opacities, hides D, disables *)
(* C and destroys either; then the engine renders a frame.                  *)

InitSurface == InitScene({"A", "C", "D"}, <<"A">>)

NextSurface ==
    \/ \E texture \in Textures : FramesLeft /\ SetElementRenderTexture("C", texture)
    \/ \E e \in {"C", "D"}, opacity \in Alphas : FramesLeft /\ SetOpacity(e, opacity)
    \/ \E enable \in BOOLEAN : FramesLeft /\ SetVisible("D", enable)
    \/ \E enable \in BOOLEAN : FramesLeft /\ SetEnabled("C", enable)
    \/ \E e \in {"C", "D"} : FramesLeft /\ Destroy(e)
    \/ RenderUpdate

SpecSurface == InitSurface /\ [][NextSurface]_vars_all

----------------------------------------------------------------------------
(* The traversal-order specification: the panel A under the root holds, in  *)
(* the order of their creation, H (of priority 1) with its child K, B, W    *)
(* with its child R, and P.  The application hides elements, sets           *)
(* opacities, textures and blend modes; then the engine renders a frame.    *)

OrderParent ==
    [n \in Nodes |-> IF n = "A" THEN Root
                     ELSE IF n \in {"H", "B", "W", "P"} THEN "A"
                     ELSE IF n = "K" THEN "H"
                     ELSE IF n = "R" THEN "W" ELSE Null]

OrderChildren ==
    [n \in Nodes |-> IF n = Root THEN <<"A">>
                     ELSE IF n = "A" THEN <<"H", "B", "W", "P">>
                     ELSE IF n = "H" THEN <<"K">>
                     ELSE IF n = "W" THEN <<"R">> ELSE <<>>]

InitOrder == InitTree({"A", "H", "K", "B", "W", "R", "P"}, OrderParent, OrderChildren, "B")

NextOrder ==
    \/ \E e \in {"A", "W", "P", "R"}, enable \in BOOLEAN : FramesLeft /\ SetVisible(e, enable)
    \/ \E e \in {"A", "W", "K"}, opacity \in Alphas : FramesLeft /\ SetOpacity(e, opacity)
    \/ \E texture \in Textures : FramesLeft /\ SetTexture("W", texture)
    \/ \E mode \in BlendModes : FramesLeft /\ SetBlendMode("P", mode)
    \/ RenderUpdate

SpecOrder == InitOrder /\ [][NextOrder]_vars_all

----------------------------------------------------------------------------
(* The key specification: A with its child B and the windows W, with its   *)
(* child R, and P, a popup whose origin is R.  The user presses, moves and  *)
(* releases the left mouse button and presses the Escape key or another     *)
(* key; the application moves the focus and makes windows modal and not.    *)

Keys == {"KEY_ESCAPE", "KEY_A"}

InitKey ==
    InitTree(Widgets \cup {"R"}, SceneParent(Widgets \cup {"R"}),
             SceneChildren(Widgets \cup {"R"}, <<"A", "W", "P">>), "R")

NextKey ==
    \/ HandleMouseButtonDown(0)
    \/ HandleMouseButtonUp(0)
    \/ \E position \in {<<0, 0>>, <<2, 0>>} : HandleMouseMove(position)
    \/ \E key \in Keys : HandleKeyDown(key)
    \/ \E e \in {"A", "W", Null} : CallSetFocusElement(e)
    \/ \E e \in {"W", "P"}, enable \in BOOLEAN : CallSetModalElement(e, enable)

SpecKey == InitKey /\ [][NextKey]_vars_all

----------------------------------------------------------------------------
(* The click specification: A and the window W under the root, nothing at  *)
(* the root's right end.  The user moves the mouse and presses and releases *)
(* the left button; the application disables and enables W, hides and shows *)
(* the operating system's cursor, makes W modal and not, and moves the      *)
(* focus.                                                                   *)

InitClick == InitScene({"A", "W"}, <<"A", "W">>)

NextClick ==
    \/ HandleMouseButtonDown(0)
    \/ HandleMouseButtonUp(0)
    \/ \E position \in {<<2, 0>>, <<3, 0>>} : HandleMouseMove(position)
    \/ \E enable \in BOOLEAN : SetEnabled("W", enable)
    \/ \E enable \in BOOLEAN : SetMouseVisible(enable)
    \/ \E enable \in BOOLEAN : CallSetModalElement("W", enable)
    \/ \E e \in {"W", Null} : CallSetFocusElement(e)

SpecClick == InitClick /\ [][NextClick]_vars_all

----------------------------------------------------------------------------
(* The batch merger on its own: the application's elements pass batches of  *)
(* any render state and vertex range to UIBatch::AddOrMerge.                *)

MaxVertex  == 2
MaxBatches == 3

\* The render states the elements use: one, and those that differ from it in
\* the blend mode, the scissor, the texture, the custom material or the vertex
\* buffer.
PlainState == [blendMode |-> "BLEND_REPLACE", scissor |-> <<0, 0, RootW, RootH>>,
               texture |-> "T", customMaterial |-> Null, vertexData |-> "vertexData_"]
RenderStates ==
    {PlainState,
     [PlainState EXCEPT !.blendMode = "BLEND_ALPHA"],
     [PlainState EXCEPT !.scissor = <<0, 0, 1, 1>>],
     [PlainState EXCEPT !.texture = Null],
     [PlainState EXCEPT !.customMaterial = "M"],
     [PlainState EXCEPT !.vertexData = "debugVertexData_"]}

\* a batch of element A with render state r and the vertex range a .. b
MakeBatch(r, a, b) ==
    [element |-> "A", blendMode |-> r.blendMode, scissor |-> r.scissor, texture |-> r.texture,
     customMaterial |-> r.customMaterial, vertexData |-> r.vertexData,
     vertexStart |-> a, vertexEnd |-> b]

BatchInputs ==
    {MakeBatch(r, x[1], x[2]) :
        r \in RenderStates,
        x \in {y \in (0 .. MaxVertex) \X (0 .. MaxVertex) : y[1] <= y[2]}}

\* blend mode, scissor, texture, custom material and vertex buffer are equal
SameRenderState(a, b) ==
    /\ a.blendMode = b.blendMode
    /\ a.scissor = b.scissor
    /\ a.texture = b.texture
    /\ a.customMaterial = b.customMaterial
    /\ a.vertexData = b.vertexData

\* UIBatch::AddOrMerge(batch, batches_), as an element's GetBatches calls it
CallAddOrMerge(batch) ==
    /\ ~crashed
    /\ history.run.count < MaxBatches
    /\ batches' = AddOrMerge(batch, batches)
    /\ fired' = <<>>
    /\ lastOp' = [op |-> "AddOrMerge", batch |-> batch]
    /\ history' = [history EXCEPT
           !.before = [el |-> Null],
           !.run = IF ~@.any
                   THEN [any |-> TRUE, uniform |-> TRUE, first |-> batch,
                         end |-> batch.vertexEnd, count |-> 1]
                   ELSE [@ EXCEPT !.uniform = /\ @
                                              /\ SameRenderState(batch, history.run.first)
                                              /\ batch.vertexStart = history.run.end,
                                  !.end = batch.vertexEnd,
                                  !.count = @ + 1]]
    /\ UNCHANGED <<flagVars, treeVars, focusElement, routerVars, image, vertexData,
                   nonModalBatchSize, uiBatch, renderToTexture>>

InitBatch == InitScene({}, <<>>)

NextBatch == \E batch \in BatchInputs : CallAddOrMerge(batch)

SpecBatch == InitBatch /\ [][NextBatch]_vars_all

----------------------------------------------------------------------------
(* Quads.  The vertex buffer holds one entry per quad (two triangles, six   *)
(* vertices); a batch's range counts quads.  A colour is its alpha byte.  An *)
(* owning element is given by the alpha of its colour, its derived opacity   *)
(* and whether it has a colour gradient; it lies at the screen's origin.     *)

MaxQuadSize == 3    \* widths and heights of quads: 0 .. MaxQuadSize
MaxTileSize == 2    \* widths and heights of texture regions: 0 .. MaxTileSize

QuadElements == [null : {FALSE}, colorAlpha : {0, 255}, derivedOpacity : Alphas,
                 hasColorGradient : BOOLEAN]

\* UIBatch::AddQuad(transform, x, y, width, height, ...) under the identity
\* transform; a gradient reads the colours of element_
AddQuadTransform(q, x, y, width, height) ==
    IF Invisible(q.batch) THEN q
    ELSE IF q.batch.useGradient /\ q.batch.element.null
    THEN PushQuad([q EXCEPT !.nullDeref = TRUE], x, y, width, height)
    ELSE PushQuad(q, x, y, width, height)

RECURSIVE TileRow(_, _, _, _, _, _, _)
\* the inner loop of the tiled AddQuad: the tiles of one row from tileX on
TileRow(q, x, y, width, texWidth, tileH, tileX) ==
    IF tileX >= width THEN q
    ELSE TileRow(AddQuad(q, x + tileX, y, Min(width - tileX, texWidth), tileH),
                 x, y, width, texWidth, tileH, tileX + Min(width - tileX, texWidth))

RECURSIVE TileRows(_, _, _, _, _, _, _, _)
\* the outer loop of the tiled AddQuad: the rows from tileY on
TileRows(q, x, y, width, height, texWidth, texHeight, tileY) ==
    IF tileY >= height THEN q
    ELSE TileRows(TileRow(q, x, y + tileY, width, texWidth,
                          Min(height - tileY, texHeight), 0),
                  x, y, width, height, texWidth, texHeight,
                  tileY + Min(height - tileY, texHeight))

\* the loops of the tiled AddQuad never end: a row or a tile does not advance
TilingHangs(width, height, texWidth, texHeight) ==
    height > 0 /\ (texHeight <= 0 \/ (width > 0 /\ texWidth <= 0))

\* UIBatch::AddQuad(x, y, width, height, texOffsetX, texOffsetY, texWidth, texHeight,
\* tiled); seen is what the reads through element_ return
AddQuadTiled(q, seen, x, y, width, height, texWidth, texHeight, tiled) ==
    IF ~(seen.hasColorGradient \/ DerivedAlpha(seen) # 0) THEN q
    ELSE IF ~tiled THEN AddQuad(q, x, y, width, height)
    ELSE IF TilingHangs(width, height, texWidth, texHeight) THEN [q EXCEPT !.hang = TRUE]
    ELSE TileRows(q, x, y, width, height, texWidth, texHeight, 0)

\* what a read through element_ returns: the element's state, or anything when
\* element_ is null
Seen(b) == IF b.element.null THEN QuadElements ELSE {b.element}

\* the end of a call on the batch: a call that never returns or that read
\* through a null element_ may end the process
LeaveQuad(q, op) ==
    /\ uiBatch' = q.batch
    /\ vertexData' = q.vertexData
    /\ crashed' \in (IF q.hang THEN {TRUE} ELSE IF q.nullDeref THEN BOOLEAN ELSE {FALSE})
    /\ fired' = <<>>
    /\ lastOp' = op
    /\ history' = [history EXCEPT !.before = [el |-> Null]]
    /\ UNCHANGED <<image, batches, nonModalBatchSize, renderToTexture, flagVars, treeVars,
                   focusElement, dragElements, dragElementsCount, dragConfirmedCount, dragElementsConfirmed, doubleClick,
                   hoveredElements, input>>

\* PODVector::Clear on the vertex buffer followed by the construction of a batch
\* on it, as UI::RenderUpdate and the elements' GetBatches do
NewUIBatch(element, keep) ==
    /\ ~crashed
    /\ keep <= Len(vertexData)
    /\ LeaveQuad(QuadState(UIBatchCtor(element, "BLEND_REPLACE", SubSeq(vertexData, 1, keep)),
                           SubSeq(vertexData, 1, keep)),
                 [op |-> "UIBatch", element |-> element])

\* UIBatch::SetColor called by the application
CallSetColor(color, overrideAlpha) ==
    /\ ~crashed
    /\ uiBatch.vertexData # Null
    /\ LeaveQuad(QuadState(BatchSetColor(uiBatch, color, overrideAlpha), vertexData),
                 [op |-> "SetColor", color |-> color, overrideAlpha |-> overrideAlpha])

\* the record of a call of an AddQuad variant
QuadOp(variant, width, height, texWidth, texHeight, tiled) ==
    [op |-> "AddQuad", variant |-> variant, width |-> width, height |-> height,
     texWidth |-> texWidth, texHeight |-> texHeight, tiled |-> tiled]

\* the quad of width and height 1 at the origin
UnitQuad == [x |-> 0, y |-> 0, width |-> 1, height |-> 1]

\* a batch was constructed or coloured and the buffer has room: it is empty or
\* holds one unit quad
CanAddQuad ==
    /\ ~crashed
    /\ lastOp.op \in {"UIBatch", "SetColor"}
    /\ uiBatch.vertexData # Null
    /\ Len(vertexData) < MaxVertex
    /\ \A i \in 1 .. Len(vertexData) : vertexData[i] = UnitQuad

CallAddQuad(width, height) ==
    /\ CanAddQuad
    /\ LeaveQuad(AddQuad(QuadState(uiBatch, vertexData), 0, 0, width, height),
                 QuadOp("rect", width, height, 0, 0, FALSE))

CallAddQuadTransform(width, height) ==
    /\ CanAddQuad
    /\ LeaveQuad(AddQuadTransform(QuadState(uiBatch, vertexData), 0, 0, width, height),
                 QuadOp("transform", width, height, 0, 0, FALSE))

CallAddQuadTiled(width, height, texWidth, texHeight, tiled) ==
    /\ CanAddQuad
    /\ \E seen \in Seen(uiBatch) :
           LeaveQuad(AddQuadTiled([QuadState(uiBatch, vertexData) EXCEPT
                                      !.nullDeref = uiBatch.element.null],
                                  seen, 0, 0, width, height, texWidth, texHeight, tiled),
                     QuadOp("tiled", width, height, texWidth, texHeight, tiled))

QuadSizes == 0 .. MaxQuadSize
TileSizes == 0 .. MaxTileSize

InitQuad == InitScene({}, <<>>)

NextQuad ==
    \/ \E element \in QuadElements \cup {NoQuadElement}, keep \in 0 .. 1 : NewUIBatch(element, keep)
    \/ \E color \in Alphas, overrideAlpha \in BOOLEAN : CallSetColor(color, overrideAlpha)
    \/ \E width, height \in QuadSizes : CallAddQuad(width, height)
    \/ \E width, height \in QuadSizes : CallAddQuadTransform(width, height)
    \/ \E width, height \in QuadSizes, texWidth, texHeight \in TileSizes, tiled \in BOOLEAN :
           CallAddQuadTiled(width, height, texWidth, texHeight, tiled)

SpecQuad == InitQuad /\ [][NextQuad]_vars_all

----------------------------------------------------------------------------
(* Claims on hit-testing, focus and modal relocation (SpecModal).          *)

\* C7: while a modal element is active (the modal root has a child), ElementAt
\* never returns an element outside the modal root's subtree.
C7_ElementAtStaysInModalSubtree ==
    (lastOp.op = "GetElementAt" /\ lastOp.hadModal /\ lastOp.result # Null)
        => IsUnder(lastOp.result, ModalRoot)

\* C8: while a modal element is active, SetFocus on a non-null target changes the
\* focus only if the target lies under a child of the modal root; a target that is
\* a child or deeper descendant of the normal root leaves the focus unchanged.
C8_FocusStaysInModalSubtree ==
    (lastOp.op = "SetFocusElement" /\ lastOp.hadModal /\ lastOp.element # Null)
        => /\ focusElement # lastOp.oldFocus => IsUnder(lastOp.element, ModalRoot)
           /\ IsUnder(lastOp.element, Root) => focusElement = lastOp.oldFocus

\* the elements made modal that the modal root holds
ModalElements == {e \in Range(children[ModalRoot]) : e \in history.made}

\* C9 as stated: the modal root never holds more than one element that was made
\* modal.
C9_AtMostOneModalElement == Cardinality(ModalElements) <= 1

\* C9 as amended: SetModal does not limit the number of modal elements; every
\* element made modal and not yet made non-modal is a window and is held by the
\* modal root exactly once.
C9_ModalElementsAreWindowsHeldOnce ==
    \A e \in history.made :
        /\ IsWindow(e)
        /\ parent[e] = ModalRoot
        /\ Cardinality({i \in 1 .. Len(children[ModalRoot]) : children[ModalRoot][i] = e}) = 1

\* two windows are modal at once
C9_Witness == Cardinality(ModalElements) = 2

\* the place of element n in tree t: its parent and its index under it
PlaceIn(t, n) == <<t.parent[n], ChildIndex(t, n)>>

\* C10: SetModal(e, true) directly followed by SetModal(e, false) puts e back under
\* its original parent at its original index, and likewise the top-level ancestor
\* of e's origin when e is a popup and that ancestor was relocated.
C10_ModalRoundTrip ==
    (/\ lastOp.op = "SetModalElement" /\ ~lastOp.enable /\ lastOp.ok
     /\ lastOp.before.el = lastOp.element)
        => LET e      == lastOp.element
               t0     == lastOp.before.t
               origin == t0.vars[e].origin
               top    == TopLevelIn([t0 EXCEPT !.parent[e] = ModalRoot], origin)
           IN  /\ PlaceIn(Tree, e) = PlaceIn(t0, e)
               /\ top # Null => PlaceIn(Tree, top) = PlaceIn(t0, top)

\* a tag store without the original-parent and original-child-index entries
NoOriginalPlace(v) == v.originalParent = Null /\ v.originalChildIndex = NoUInt

\* C11: after SetModal(e, false) succeeds, neither e nor the relocated top-level
\* ancestor of e's origin carries an original-parent or original-child-index
\* entry, the origin carries no parent-changed entry, and the origin entry of e
\* is unchanged.
C11_DisableClearsBookkeeping ==
    [][(lastOp'.op = "SetModalElement" /\ ~lastOp'.enable /\ lastOp'.ok)
        => LET e      == lastOp'.element
               origin == vars[e].origin
               top    == IF origin = Null THEN Null ELSE vars[origin].parentChanged
           IN  /\ NoOriginalPlace(vars'[e])
               /\ vars'[e].origin = origin
               /\ origin # Null => vars'[origin].parentChanged = Null
               /\ top # Null => NoOriginalPlace(vars'[top])]_vars_all

\* the calls of SetModalElement that are misuse: a null element, an element that
\* is not a window, enabling a child of the modal root, disabling an element
\* whose parent is not the modal root
ModalMisuse(e, enable) ==
    \/ e = Null
    \/ ~IsWindow(e)
    \/ enable /\ parent[e] = ModalRoot
    \/ ~enable /\ parent[e] # ModalRoot

\* C12: SetModal on misuse returns false and leaves the tree and every tag store
\* unchanged.
C12_MisuseRejectedUnchanged ==
    [][(lastOp'.op = "SetModalElement" /\ ModalMisuse(lastOp'.element, lastOp'.enable))
        => ~lastOp'.ok /\ UNCHANGED treeVars]_vars_all

\* a second enable of a modal window was rejected
C12_Witness ==
    /\ lastOp.op = "SetModalElement" /\ lastOp.enable /\ ~lastOp.ok
    /\ lastOp.element # Null /\ IsWindow(lastOp.element)
    /\ parent[lastOp.element] = ModalRoot

----------------------------------------------------------------------------
(* Claims on the batch merger (SpecBatch).                                 *)

\* the batch differs from the list's last batch in blend mode, scissor or texture
DiffersFromLast(batch, list) ==
    /\ list # <<>>
    /\ \/ batch.blendMode # list[Len(list)].blendMode
       \/ batch.scissor # list[Len(list)].scissor
       \/ batch.texture # list[Len(list)].texture

\* the list is one batch that spans the vertex ranges of the batches passed so far
OneBatchSpansRun(list, run) ==
    /\ Len(list) = 1
    /\ list[1].vertexStart = run.first.vertexStart
    /\ list[1].vertexEnd = run.end

\* C13 as stated: after every sequence of batches of identical render state and
\* append-contiguous ranges the list is exactly one batch that spans their union,
\* and a batch that differs from the last batch in blend mode, scissor or texture
\* is appended as a separate batch.
C13_UniformRunIsOneBatch ==
    [][lastOp'.op = "AddOrMerge"
        => /\ history'.run.uniform => OneBatchSpansRun(batches', history'.run)
           /\ DiffersFromLast(lastOp'.batch, batches)
                  => batches' = Append(batches, lastOp'.batch)]_vars_all

\* C13 as amended: the same for batches that hold vertices; a batch without
\* vertices is dropped, so that a run of empty batches leaves no batch at all.
C13_NonEmptyUniformRunIsOneBatch ==
    [][lastOp'.op = "AddOrMerge"
        => /\ history'.run.uniform
                  => IF history'.run.end > history'.run.first.vertexStart
                     THEN OneBatchSpansRun(batches', history'.run)
                     ELSE batches' = <<>>
           /\ lastOp'.batch.vertexEnd = lastOp'.batch.vertexStart => batches' = batches
           /\ (/\ DiffersFromLast(lastOp'.batch, batches)
               /\ lastOp'.batch.vertexEnd # lastOp'.batch.vertexStart)
                  => batches' = Append(batches, lastOp'.batch)]_vars_all

\* three batches of one render state, one of them empty, became one batch of two
\* quads
C13_Witness ==
    /\ lastOp.op = "AddOrMerge"
    /\ history.run.uniform /\ history.run.count = 3
    /\ Len(batches) = 1 /\ batches[1].vertexStart = 0 /\ batches[1].vertexEnd = 2

\* C14: a batch with vertices is merged into the list's last batch if and only
\* if blend mode, scissor, texture, custom material and vertex buffer of the two
\* are equal and the batch starts where the last batch ends; it is never merged
\* when the custom materials differ.
C14_MergedIffSameStateAndContiguous ==
    [][(/\ lastOp'.op = "AddOrMerge" /\ batches # <<>>
        /\ lastOp'.batch.vertexEnd # lastOp'.batch.vertexStart)
        => (Len(batches') = Len(batches)
               <=> /\ SameRenderState(lastOp'.batch, batches[Len(batches)])
                   /\ lastOp'.batch.vertexStart = batches[Len(batches)].vertexEnd)]_vars_all

----------------------------------------------------------------------------
(* Claims on the drag registry and on double clicks (SpecDrag, SpecTouch). *)

\* the events of the handler that ran last
Fired == Range(fired)

\* the handler that ran last delivered event ev of a drag to element e
DragEventFired(evs, ev, e) == \E x \in evs : x.ev = ev /\ x.el = e

\* C1: between the creation of a registry entry and its erasure the drag begin
\* is delivered at most once, whatever the order of frame updates and moves.
C1_DragBeginAtMostOnce == \A e \in Elems : history.begins[e] <= 1

\* an entry begun by time, then moved past the distance threshold with a drag
\* move and no second drag begin
C1_Witness ==
    /\ lastOp.op = "MouseMove"
    /\ \E i \in 1 .. Len(dragElements) :
          LET d == dragElements[i] IN
          /\ history.begins[d.element] = 1
          /\ d.dragBeginTimer >= DragBeginIntervalMSec
          /\ Abs(d.sumPos[1] - d.dragBeginSumPos[1]) >= DragBeginDistance
          /\ DragEventFired(Fired, "E_DRAGMOVE", d.element)
          /\ ~DragEventFired(Fired, "E_DRAGBEGIN", d.element)

C3_EndIffActive ==
    [][lastOp'.op = "MouseButtonUp" =>
         \A i \in 1 .. Len(dragElements) :
            LET d == dragElements[i]
                ended == DragEventFired(Range(fired'), "E_DRAGEND", d.element)
            IN  (/\ Live(d.element)
                 /\ lastOp'.button \in d.dragButtons
                 /\ ~DragContains(dragElements', d.element))
                    => (ended <=> ~d.dragBeginPending)]_vars_all

\* C3 as amended: an entry erased on a release gets a drag end if and only if the
\* released button is one of its buttons, it was ACTIVE, its element is alive,
\* enabled and visible, and the cursor is visible.
C3_EndIffActiveAndDeliverable ==
    [][lastOp'.op = "MouseButtonUp" =>
         \A i \in 1 .. Len(dragElements) :
            LET d == dragElements[i]
                ended == DragEventFired(Range(fired'), "E_DRAGEND", d.element)
            IN  /\ ~DragContains(dragElements', d.element) =>
                       (ended <=> /\ lastOp'.button \in d.dragButtons
                                  /\ ~d.dragBeginPending
                                  /\ Live(d.element) /\ enabled[d.element] /\ visible[d.element]
                                  /\ input.cursorVisible)
                /\ DragContains(dragElements', d.element) => ~ended]_vars_all

\* an ACTIVE entry of one button was released and erased with its drag end
C3_Witness ==
    /\ lastOp.op = "MouseButtonUp"
    /\ \E x \in Fired :
          /\ x.ev = "E_DRAGEND"
          /\ x.buttons = {lastOp.button}
          /\ ~DragContains(dragElements, x.el)

\* a cancel has run: the Escape key with a drag tracked, or a mouse button press
CancelRan(op, count) == (op.op = "KeyDown" /\ count > 0) \/ op.op = "MouseButtonDown"

\* no drag begin, end or cancel was delivered to element e
NoDragCallback(evs, e) ==
    \A x \in evs : x.el = e => x.ev \notin {"OnDragBegin", "E_DRAGBEGIN", "OnDragEnd", "E_DRAGEND",
                                            "OnDragCancel", "E_DRAGCANCEL"}

\* C4 as stated: a cancel that arrives while the entry of element C is PENDING
\* fires no begin, end or cancel on C and removes C's entry from the registry.
C4_CancelRemovesPending ==
    [][CancelRan(lastOp', dragElementsCount) =>
         \A i \in 1 .. Len(dragElements) :
            LET d == dragElements[i] IN
            d.dragBeginPending =>
                /\ NoDragCallback(Range(fired'), d.element)
                /\ ~DragContains(dragElements', d.element)]_vars_all

\* C4 as amended: such a cancel fires no begin, end or cancel on C and leaves C's
\* entry in the registry, still PENDING; the Escape key leaves it unchanged.
C4_CancelKeepsPending ==
    [][CancelRan(lastOp', dragElementsCount) =>
         \A i \in 1 .. Len(dragElements) :
            LET d == dragElements[i] IN
            d.dragBeginPending =>
                /\ NoDragCallback(Range(fired'), d.element)
                /\ \E j \in 1 .. Len(dragElements') :
                      /\ dragElements'[j].element = d.element
                      /\ dragElements'[j].dragBeginPending
                      /\ lastOp'.op = "KeyDown" => dragElements'[j] = d]_vars_all

\* the Escape key was pressed over a PENDING entry of a live element, which is
\* still tracked
C4_Witness ==
    /\ lastOp.op = "KeyDown"
    /\ fired = <<>>
    /\ \E i \in 1 .. Len(dragElements) :
          dragElements[i].dragBeginPending /\ Live(dragElements[i].element)

\* C5 as stated: the Escape key with a drag tracked fires the drag cancel on every
\* ACTIVE entry and erases it, leaves every PENDING entry unchanged, and no ACTIVE
\* entry remains.
C5_CancelErasesEveryActive ==
    [][(lastOp'.op = "KeyDown" /\ dragElementsCount > 0) =>
         /\ \A i \in 1 .. Len(dragElements) :
               LET d == dragElements[i] IN
               IF d.dragBeginPending
               THEN \E j \in 1 .. Len(dragElements') : dragElements'[j] = d
               ELSE /\ DragEventFired(Range(fired'), "E_DRAGCANCEL", d.element)
                    /\ ~DragContains(dragElements', d.element)
         /\ \A j \in 1 .. Len(dragElements') : dragElements'[j].dragBeginPending]_vars_all

\* C5 as amended: while touch input is in use the cancel does nothing; otherwise
\* it fires the drag cancel on every ACTIVE entry whose element is alive, enabled
\* and visible, and erases it, and leaves every other entry unchanged and without
\* a cancel.
C5_CancelErasesDeliverableActive ==
    [][(lastOp'.op = "KeyDown" /\ dragElementsCount > 0) =>
         IF input.usingTouchInput
         THEN dragElements' = dragElements /\ fired' = <<>>
         ELSE \A i \in 1 .. Len(dragElements) :
                 LET d == dragElements[i]
                     cancelled == DragEventFired(Range(fired'), "E_DRAGCANCEL", d.element)
                 IN  IF /\ ~d.dragBeginPending
                        /\ Live(d.element) /\ enabled[d.element] /\ visible[d.element]
                     THEN cancelled /\ ~DragContains(dragElements', d.element)
                     ELSE ~cancelled /\ \E j \in 1 .. Len(dragElements') : dragElements'[j] = d
      ]_vars_all

\* the Escape key cancelled an ACTIVE entry next to a PENDING one, which stays
C5_Witness ==
    /\ lastOp.op = "KeyDown"
    /\ \E x \in Fired : x.ev = "E_DRAGCANCEL" /\ ~DragContains(dragElements, x.el)
    /\ \E i \in 1 .. Len(dragElements) : dragElements[i].dragBeginPending

\* the squared distance of a click from the first click
ClickDistance2(pos) ==
    LET v == VecSub(pos, doubleClick.firstPos) IN v[1] * v[1] + v[2] * v[2]

----------------------------------------------------------------------------
(* Claims on the batch collector (SpecRender).                             *)

\* vertex i of the buffer lies in the range of batch b
InBatch(i, b) == batches[b].vertexStart < i /\ i <= batches[b].vertexEnd

\* the vertex was written by the cursor or by an element below it
OfCursor(v) == v.element = input.cursor \/ IsUnder(v.element, input.cursor)

\* C15: after UI::RenderUpdate, the batches of the non-modal range, the first
\* nonModalBatchSize_ of the list, hold only vertices of elements under the
\* normal root, and every vertex of an element under the modal root lies in a
\* batch past that range.
C15_ModalGeometryPastNonModalRange ==
    lastOp.op = "RenderUpdate" =>
        \A i \in 1 .. Len(vertexData), b \in 1 .. Len(batches) :
            InBatch(i, b) =>
                /\ b <= nonModalBatchSize => IsUnder(vertexData[i].element, Root)
                /\ IsUnder(vertexData[i].element, ModalRoot) => b > nonModalBatchSize

\* C16: after UI::RenderUpdate, no vertex written while the normal root or the
\* modal root was traversed belongs to the cursor or to a child of it, and the
\* vertices of the cursor and its children come after every other vertex of
\* the frame.
C16_CursorExcludedAndLast ==
    lastOp.op = "RenderUpdate" /\ input.cursor # Null =>
        /\ \A i \in 1 .. Len(vertexData) :
               OfCursor(vertexData[i]) <=> vertexData[i].pass = "cursor"
        /\ \A i, j \in 1 .. Len(vertexData) :
               i < j /\ OfCursor(vertexData[i]) => OfCursor(vertexData[j])

\* a frame with a modal window in which the cursor and its child were composited
C16_Witness ==
    /\ lastOp.op = "RenderUpdate"
    /\ input.cursor = "C"
    /\ \E i \in 1 .. Len(vertexData) : vertexData[i] = [element |-> "A", pass |-> "normal"]
    /\ \E i \in 1 .. Len(vertexData) : vertexData[i].pass = "modal"
    /\ \E i \in 1 .. Len(vertexData) : vertexData[i] = [element |-> "C", pass |-> "cursor"]
    /\ \E i \in 1 .. Len(vertexData) : vertexData[i] = [element |-> "D", pass |-> "cursor"]

----------------------------------------------------------------------------
(* Claims on the hover set (SpecDrag).                                     *)

\* the events of kind ev delivered to e, in a list of events
EventsOf(evs, ev, e) == SelectSeq(evs, LAMBDA x : x.ev = ev /\ x.el = e)

\* C17: a frame update that does not crash leaves in the hover set only elements
\* its hit-tests flagged again (their OnHover ran); every other element that was
\* in the set has left it and was sent E_HOVEREND.
C17_UnflaggedLeaveWithHoverEnd ==
    [][(lastOp'.op = "Update" /\ ~crashed')
        => \A e \in hoveredElements :
              \/ e \in hoveredElements' /\ EventsOf(fired', "OnHover", e) # <<>>
              \/ e \notin hoveredElements' /\ EventsOf(fired', "E_HOVEREND", e) # <<>>]_vars_all

\* C18: a frame update that finds a destroyed element in the hover set does not
\* crash and sends E_HOVEREND for that element.
C18_HoverEndForDestroyed ==
    [][(lastOp'.op = "Update" /\ \E e \in hoveredElements : ~alive[e])
        => /\ ~crashed'
           /\ \A e \in hoveredElements :
                  ~alive[e] => EventsOf(fired', "E_HOVEREND", e) # <<>>]_vars_all

\* C19: E_HOVERBEGIN is sent to an element once in the step in which it enters
\* the hover set and in no other step, E_HOVEREND only in a step in which it
\* leaves the set, at most once, and an element that is alive does not leave
\* the set without it: the two notifications of an element alternate, the
\* first is E_HOVERBEGIN, and an element that stays in the set over a frame is
\* not sent E_HOVERBEGIN again.
C19_HoverBeginOnEntryOnly ==
    [][\A e \in Elems :
          /\ Len(EventsOf(fired', "E_HOVERBEGIN", e))
                 = (IF e \in hoveredElements' \ hoveredElements THEN 1 ELSE 0)
          /\ Len(EventsOf(fired', "E_HOVEREND", e))
                 <= (IF e \in hoveredElements \ hoveredElements' THEN 1 ELSE 0)
          /\ e \in hoveredElements \ hoveredElements' /\ alive[e]
                 => EventsOf(fired', "E_HOVEREND", e) # <<>>]_vars_all

\* a frame in which A, hovered before, was hovered again and stays in the set
C19_Witness ==
    /\ lastOp.op = "Update"
    /\ "A" \in hoveredElements
    /\ EventsOf(fired, "OnHover", "A") # <<>>
    /\ EventsOf(fired, "E_HOVERBEGIN", "A") = <<>>

----------------------------------------------------------------------------
(* Claims on handlers that destroy (SpecReentrant).                        *)

\* C20: no pass calls a callback of an element through its weak reference
\* after a handler of the same pass destroyed the element.
C20_NoDereferenceAfterDestroy == ~history.staleDeref

----------------------------------------------------------------------------
(* Claims on the focus (SpecFocus).                                        *)

\* the last call of SetFocusElement went past its early returns
FocusChangeRan == lastOp.op = "SetFocusElement" /\ fired # <<>>

\* C21: a SetFocusElement that changes the focus sends E_DEFOCUSED to the old
\* focus element first, then E_FOCUSED to the new one, then E_FOCUSCHANGED
\* last, which carries the requested element and the element that now has the
\* focus.
C21_FocusEventsInOrder ==
    FocusChangeRan =>
        fired = (IF lastOp.oldFocus # Null THEN <<Ev("E_DEFOCUSED", lastOp.oldFocus)>> ELSE <<>>)
                \o (IF focusElement # Null THEN <<Ev("E_FOCUSED", focusElement)>> ELSE <<>>)
                \o <<EvArg("E_FOCUSCHANGED", focusElement, lastOp.element)>>

\* the nearest ancestor-or-self of n whose focus mode is at least rank, or Null
RECURSIVE NearestOfRank(_, _)
NearestOfRank(n, rank) ==
    IF n = Null \/ n \notin Elems THEN Null
    ELSE IF FocusRank[FocusMode(n)] >= rank THEN n
    ELSE NearestOfRank(parent[n], rank)

\* the last call of SetFocusElement had a target that is not null, not the focus
\* element and not rejected for the modal element
FocusRequestRan ==
    /\ lastOp.op = "SetFocusElement"
    /\ lastOp.element # Null
    /\ lastOp.element # lastOp.oldFocus
    /\ ~(lastOp.hadModal /\ TopLevelUnderRoot(parent[lastOp.element]) # Null)

\* the focus element has a focus mode of at least FM_FOCUSABLE
FocusIsFocusable ==
    focusElement # Null => FocusRank[FocusMode(focusElement)] >= FocusRank.FM_FOCUSABLE

\* C22: SetFocusElement on a target that is not null and not rejected gives
\* the focus to the nearest ancestor-or-self of the target whose focus mode is
\* at least FM_FOCUSABLE, if there is one, and the focus element always has a
\* focus mode of at least FM_FOCUSABLE.
C22_FocusesNearestFocusable ==
    /\ FocusIsFocusable
    /\ (FocusRequestRan /\ NearestOfRank(lastOp.element, FocusRank.FM_FOCUSABLE) # Null)
           => focusElement = NearestOfRank(lastOp.element, FocusRank.FM_FOCUSABLE)

\* C22 as the code has it: the walk stops at the nearest ancestor-or-self whose
\* focus mode is not FM_NOTFOCUSABLE; that element gets the focus if its mode
\* is at least FM_FOCUSABLE, else (FM_RESETFOCUS) no element has the focus
\* afterwards; the focus element always has a mode of at least FM_FOCUSABLE.
C22_FocusesNearestNotUnfocusable ==
    /\ FocusIsFocusable
    /\ (FocusRequestRan /\ NearestOfRank(lastOp.element, FocusRank.FM_RESETFOCUS) # Null)
           => focusElement =
                 IF FocusRank[FocusMode(NearestOfRank(lastOp.element, FocusRank.FM_RESETFOCUS))]
                       >= FocusRank.FM_FOCUSABLE
                 THEN NearestOfRank(lastOp.element, FocusRank.FM_RESETFOCUS)
                 ELSE Null

\* the focus was asked for B, which is not focusable, and went to its parent A
C22_Witness ==
    /\ lastOp.op = "SetFocusElement"
    /\ lastOp.element = "B"
    /\ lastOp.oldFocus = "W"
    /\ focusElement = "A"

----------------------------------------------------------------------------
(* Claims on hit-testing (SpecHit).                                        *)

\* a hit-test ran and selected an element
HitRan == lastOp.op = "GetElementAt" /\ lastOp.result # Null

\* C23: a hit-test of a point outside an element's rect never selects that
\* element, and it selects a descendant of the element only when the point lies
\* inside the element's combined bounds.
C23_OutsideNeverSelected ==
    HitRan =>
        \A e \in Elems :
            ~IsInside(e, lastOp.position) =>
                /\ lastOp.result # e
                /\ IsUnder(lastOp.result, e) => IsInsideCombined(e, lastOp.position)

\* a and b are visible, enabled children of one free-layout parent, b of the
\* higher priority, and both contain the position
Overlap(a, b, position) ==
    /\ a # b /\ alive[a] /\ alive[b]
    /\ parent[a] # Null /\ parent[a] = parent[b] /\ LayoutMode(parent[a]) = "LM_FREE"
    /\ visible[a] /\ visible[b] /\ enabled[a] /\ enabled[b]
    /\ Priority(a) < Priority(b)
    /\ IsInside(a, position) /\ IsInside(b, position)

\* the result is b or a descendant of b
AtOrUnder(result, b) == result = b \/ IsUnder(result, b)

\* C24 as stated: for every position that two visible, enabled siblings of
\* different priority contain, the hit-test returns the sibling of the higher
\* priority or a descendant of it.
C24_TopmostWinsEverywhere ==
    lastOp.op = "GetElementAt" =>
        \A a, b \in Elems :
            Overlap(a, b, lastOp.position) => AtOrUnder(lastOp.result, b)

\* C24: for a position inside the root's rect that two visible, enabled children
\* of the root contain, the hit-test returns the child of the higher priority or a
\* descendant of it, never the other child or a descendant of that one.
C24_TopmostWinsInsideRoot ==
    lastOp.op = "GetElementAt" /\ lastOp.position \in Positions =>
        \A a, b \in Elems :
            Overlap(a, b, lastOp.position) =>
                /\ AtOrUnder(lastOp.result, b)
                /\ ~AtOrUnder(lastOp.result, a)

\* a hit-test at a position inside A, H and H's child K returned K although H was
\* created before A
C24_Witness ==
    /\ lastOp.op = "GetElementAt" /\ lastOp.position \in Positions
    /\ Overlap("A", "H", lastOp.position)
    /\ lastOp.result = "K"

\* C25: a hit-test returns neither the cursor element nor a descendant of it,
\* for every position, every tree and either value of enabledOnly.
C25_CursorNeverHit ==
    lastOp.op = "GetElementAt" /\ input.cursor # Null =>
        ~AtOrUnder(lastOp.result, input.cursor)

\* a hit-test at a position inside the cursor C and its child D returned B, which
\* lies below them in the root's order
C25_Witness ==
    /\ HitRan /\ input.cursor = "C"
    /\ visible["C"] /\ visible["D"]
    /\ IsInside("C", lastOp.position) /\ IsInside("D", lastOp.position)
    /\ lastOp.result = "B"

----------------------------------------------------------------------------
(* Claims on quads (SpecQuad).                                             *)

\* the batch's colour has an alpha other than 0 or is a gradient
VisibleColor(b) == b.color # 0 \/ b.useGradient

\* an AddQuad variant ran
AddQuadRan == lastOp.op = "AddQuad"

\* C26: when the batch's solid colour has alpha 0 and no gradient is active, the
\* rectangle, transform and tiled AddQuad variants leave the vertex buffer and the
\* batch's vertex range as they were.
C26_InvisibleQuadAddsNothing ==
    [][(AddQuadRan' /\ ~VisibleColor(uiBatch))
        => (vertexData' = vertexData /\ uiBatch' = uiBatch)]_vars_all

\* a tiled AddQuad ran on a batch that holds a quad already and whose colour was
\* set to alpha 0 afterwards
C26_Witness ==
    /\ AddQuadRan /\ lastOp.variant = "tiled" /\ lastOp.tiled /\ ~crashed
    /\ lastOp.width > lastOp.texWidth /\ lastOp.texWidth > 0 /\ lastOp.height > 0
    /\ ~VisibleColor(uiBatch) /\ DerivedAlpha(uiBatch.element) # 0
    /\ uiBatch.vertexStart < uiBatch.vertexEnd

Ceil(a, b) == (a + b - 1) \div b

\* the k-th tile, counted from 0 in row-major order, of the grid over a region
Tile(k, width, height, texWidth, texHeight) ==
    [x      |-> (k % Ceil(width, texWidth)) * texWidth,
     y      |-> (k \div Ceil(width, texWidth)) * texHeight,
     width  |-> Min(texWidth, width - (k % Ceil(width, texWidth)) * texWidth),
     height |-> Min(texHeight, height - (k \div Ceil(width, texWidth)) * texHeight)]

\* the grid of ceil(width / texWidth) * ceil(height / texHeight) tiles
TileGrid(op) ==
    [k \in 1 .. Ceil(op.width, op.texWidth) * Ceil(op.height, op.texHeight) |->
        Tile(k - 1, op.width, op.height, op.texWidth, op.texHeight)]

\* a tiled AddQuad ran with tiling requested and a tile of positive size
TilingRan ==
    /\ AddQuadRan /\ lastOp.variant = "tiled" /\ lastOp.tiled
    /\ lastOp.texWidth >= 1 /\ lastOp.texHeight >= 1

\* C27: tiling a region W x H with a tile (tw, th) and a visible batch colour
\* appends exactly the grid of ceil(W/tw) * ceil(H/th) sub-quads in row-major
\* order from the origin, each no larger than the tile, the last row and column
\* clipped to the remaining size.
C27_TilingEmitsGrid ==
    [][(TilingRan' /\ ~uiBatch.element.null /\ VisibleColor(uiBatch))
        => vertexData' = vertexData \o TileGrid(lastOp')]_vars_all

\* The grid is appended whenever the owning element's derived colour is visible
\* as well (alpha not 0, or a gradient).
TilingEmitsGridWhenElementVisible ==
    [][(TilingRan' /\ ~uiBatch.element.null /\ VisibleColor(uiBatch)
            /\ (uiBatch.element.hasColorGradient \/ DerivedAlpha(uiBatch.element) # 0))
        => (vertexData' = vertexData \o TileGrid(lastOp')
            /\ uiBatch'.vertexEnd = Len(vertexData'))]_vars_all

----------------------------------------------------------------------------
(* Claims on the update traversal (SpecUpdate).                            *)

\* a frame update ran in which the update of an element destroyed an element
UpdateKillRan == lastOp.op = "Update" /\ "kill" \in DOMAIN lastOp

\* the elements whose own update ran in the last frame update
Updated == Range(lastOp.updated)

\* C28: in the update traversal the children of an element are updated only if
\* the element is alive after its own update: when an element's update destroys
\* the element, none of its children is updated and nothing of the destroyed
\* element is read.
C28_ChildrenUpdatedOnlyIfAlive ==
    [][(UpdateKillRan' /\ alive[lastOp'.kill.el]
            /\ lastOp'.kill.el \in Subtree(lastOp'.kill.victim))
        => (/\ lastOp'.kill.el \in Updated'
            /\ \A c \in Subtree(lastOp'.kill.el) \ {lastOp'.kill.el} : c \notin Updated'
            /\ lastOp'.kill.el = lastOp'.kill.victim => ~history'.staleDeref)]_vars_all

\* the update of A destroyed A, and A's child B was alive before the frame
C28_Witness ==
    /\ UpdateKillRan /\ lastOp.kill.el = "A" /\ lastOp.kill.victim = "A"
    /\ "A" \in Updated /\ "W" \in Updated
    /\ "B" \in history.destroyed \/ ~alive["B"]
    /\ ~alive["A"]

----------------------------------------------------------------------------
(* Claims on render-to-texture surfaces (SpecSurface).                     *)

\* the tree of the surface gives no batch in the present state
TreeEmpty(data) ==
    SurfaceCollect([batches |-> <<>>, vertexData |-> <<>>, ch |-> children, pass |-> "texture",
                    nonModal |-> 0], data).batches = <<>>

\* the surfaces the frame left with a live, enabled root and an empty tree
EmptySurfaces ==
    {i \in 1 .. Len(renderToTexture) :
        /\ lastOp.op = "RenderUpdate"
        /\ alive[renderToTexture[i].rootElement]
        /\ enabled[renderToTexture[i].rootElement]
        /\ TreeEmpty(renderToTexture[i])}

\* the one quad that covers the rect of the root
FullSurfaceQuad(element) ==
    [x |-> Position(element)[1], y |-> Position(element)[2],
     width |-> Size(element)[1], height |-> Size(element)[2]]

\* data holds exactly one batch, of one quad over the whole surface
HoldsClearingBatch(data) ==
    /\ Len(data.batches) = 1
    /\ data.batches[1].blendMode = "BLEND_REPLACE"
    /\ data.batches[1].vertexStart = 0
    /\ data.batches[1].vertexEnd = 1
    /\ data.vertexData = <<FullSurfaceQuad(data.rootElement)>>

\* C29: after UI::RenderUpdate every surface with a live, enabled root whose
\* tree gave no batch holds exactly one batch, of blend mode replace, whose
\* range is the one opaque quad that covers the surface.
C29_EmptySurfaceHoldsOpaqueClearingQuad ==
    \A i \in EmptySurfaces :
        /\ HoldsClearingBatch(renderToTexture[i])
        /\ renderToTexture[i].batches[1].color = 255

\* The clearing batch is always there and alone, of blend mode replace; its
\* colour is black at the derived opacity of the root, and its range holds the
\* full-surface quad unless that opacity is zero, when the range is empty.
ClearingBatchFollowsRootOpacity ==
    \A i \in EmptySurfaces :
        /\ Len(renderToTexture[i].batches) = 1
        /\ renderToTexture[i].batches[1].blendMode = "BLEND_REPLACE"
        /\ renderToTexture[i].batches[1].color = DerivedOpacity(renderToTexture[i].rootElement)
        /\ IF DerivedOpacity(renderToTexture[i].rootElement) # 0
           THEN HoldsClearingBatch(renderToTexture[i])
           ELSE /\ renderToTexture[i].vertexData = <<>>
                /\ renderToTexture[i].batches[1].vertexEnd
                      = renderToTexture[i].batches[1].vertexStart

\* a frame left a surface with an empty tree
EmptySurfaceRendered == EmptySurfaces # {}

----------------------------------------------------------------------------
(* Claims on the promotion of a drag by a move (SpecDrag).                 *)

\* the centroid of the presses that began the drag of entry d
CentroidStart(d) == VecDiv(d.dragBeginSumPos, d.numDragButtons)

\* the squared length of the displacement of position from that centroid
Displacement2(d, position) ==
    LET offset == VecSub(position, CentroidStart(d))
    IN  offset[1] * offset[1] + offset[2] * offset[2]

\* the entries a mouse move can promote: PENDING, of a live, enabled and visible
\* element, with one of their buttons held and the cursor visible and not grabbed
Promotable ==
    {i \in 1 .. Len(dragElements) :
        /\ dragElements[i].dragBeginPending
        /\ Live(dragElements[i].element)
        /\ enabled[dragElements[i].element] /\ visible[dragElements[i].element]
        /\ dragElements[i].dragButtons \cap input.mouseButtons # {}
        /\ input.cursorVisible /\ ~input.mouseGrabbed}

\* after the step the entry of element e is ACTIVE and its drag begin was delivered
PromotedNext(e) ==
    /\ \E j \in 1 .. Len(dragElements') :
          dragElements'[j].element = e /\ ~dragElements'[j].dragBeginPending
    /\ DragEventFired(Range(fired'), "E_DRAGBEGIN", e)

\* after the step the entry of element e is still PENDING and no drag begin was delivered
PendingNext(e) ==
    /\ \E j \in 1 .. Len(dragElements') :
          dragElements'[j].element = e /\ dragElements'[j].dragBeginPending
    /\ ~DragEventFired(Range(fired'), "E_DRAGBEGIN", e)

\* C30: a mouse move promotes a promotable PENDING entry to ACTIVE exactly when
\* the displacement of the cursor from the entry's centroid start exceeds the
\* threshold dragBeginDistance_; a displacement that does not exceed it leaves
\* the entry PENDING.
C30_PromotedIffThresholdExceeded ==
    [][lastOp'.op = "MouseMove" =>
         \A i \in Promotable :
            IF Displacement2(dragElements[i], input'.mousePos)
                  > DragBeginDistance * DragBeginDistance
            THEN PromotedNext(dragElements[i].element)
            ELSE PendingNext(dragElements[i].element)]_vars_all

\* A mouse move promotes a promotable PENDING entry exactly when the cursor is
\* at least dragBeginDistance_ pixels from the centroid start along the x axis
\* or along the y axis: a displacement equal to the threshold promotes.
PromotedIffThresholdReached ==
    [][lastOp'.op = "MouseMove" =>
         \A i \in Promotable :
            IF \/ Abs(input'.mousePos[1] - CentroidStart(dragElements[i])[1]) >= DragBeginDistance
               \/ Abs(input'.mousePos[2] - CentroidStart(dragElements[i])[2]) >= DragBeginDistance
            THEN PromotedNext(dragElements[i].element)
            ELSE PendingNext(dragElements[i].element)]_vars_all

----------------------------------------------------------------------------
(* Claims on the traversal order of the batch collector (SpecRender,       *)
(* SpecOrder).                                                             *)

\* the places in the vertex buffer of the quads of e and of its descendants
VerticesOf(e) == {i \in 1 .. Len(vertexData) : vertexData[i].element \in Subtree(e)}

\* the places in the vertex buffer of the own quads of e
OwnVerticesOf(e) == {i \in 1 .. Len(vertexData) : vertexData[i].element = e}

\* C31: after UI::RenderUpdate, under a parent of depth-first traversal every
\* quad of a non-cursor child and of its descendants precedes, in the vertex
\* buffer, every quad of each later non-cursor sibling and of its descendants.
C31_DepthFirstSubtreeBeforeLaterSibling ==
    lastOp.op = "RenderUpdate" =>
        \A n \in {Root, ModalRoot} :
            \A a, b \in 1 .. Len(children[n]) :
                (a < b /\ ~IsCursor(children[n][a]) /\ ~IsCursor(children[n][b]))
                    => \A i \in VerticesOf(children[n][a]), j \in VerticesOf(children[n][b]) :
                           i < j

\* a frame in which A, its child B and the later sibling W wrote quads, in that order
C31_Witness ==
    /\ lastOp.op = "RenderUpdate"
    /\ parent["W"] = parent["A"]
    /\ \E i, j, k \in 1 .. Len(vertexData) :
          /\ i < j /\ j < k
          /\ vertexData[i].element = "A"
          /\ vertexData[j].element = "B"
          /\ vertexData[k].element = "W"

\* the places in the vertex buffer of the quads of the descendants of e
BelowVerticesOf(e) == VerticesOf(e) \ OwnVerticesOf(e)

\* the parents whose children are collected breadth-first
BreadthParents == {n \in Elems : alive[n] /\ TraversalMode(n) = "TM_BREADTH_FIRST"}

\* the frame reaches e: no ancestor of e is hidden
RECURSIVE Reached(_)
Reached(e) == parent[e] \notin Elems \/ (visible[parent[e]] /\ Reached(parent[e]))

\* the own quads the frame owes e: those of its image when e is reached, within
\* the scissor and not the cursor, none otherwise
OwedQuads(e) ==
    IF Reached(e) /\ IsWithinScissor(e, RootScissor) /\ ~IsCursor(e) THEN Quads(e) ELSE 0

\* C32: after UI::RenderUpdate, under a parent of breadth-first traversal the
\* children of one priority form one run: every own quad of a child of the run
\* precedes every quad of a descendant of a child of the run, and every quad
\* of a run precedes every quad of a later run; each child wrote its own quads
\* exactly once if it is collected at all, and each pass over the children
\* advances, so the traversal terminates.
C32_BreadthFirstRunsOwnBeforeDescendants ==
    lastOp.op = "RenderUpdate" =>
        \A n \in BreadthParents :
            /\ \A a, b \in 1 .. Len(children[n]) :
                   /\ Priority(children[n][a]) = Priority(children[n][b])
                        => \A i \in OwnVerticesOf(children[n][a]),
                              j \in BelowVerticesOf(children[n][b]) : i < j
                   /\ (a < b /\ Priority(children[n][a]) # Priority(children[n][b]))
                        => \A i \in VerticesOf(children[n][a]),
                              j \in VerticesOf(children[n][b]) : i < j
            /\ \A a \in 1 .. Len(children[n]) :
                   /\ Cardinality(OwnVerticesOf(children[n][a])) = OwedQuads(children[n][a])
                   /\ RunEnd(children[n], a, Priority(children[n][a])) > a

\* a frame in which the run B, W, P of A wrote its own quads, then R below W,
\* and then the run of H with K below it
C32_Witness ==
    /\ lastOp.op = "RenderUpdate"
    /\ [i \in 1 .. Len(vertexData) |-> vertexData[i].element]
          = <<"A", "B", "W", "P", "R", "H", "K">>

----------------------------------------------------------------------------
(* Claims on the Escape key (SpecKey).                                     *)

\* the step is a key-down of the Escape key
EscapeNext == lastOp'.op = "KeyDown" /\ lastOp'.key = "KEY_ESCAPE"

\* the step leaves the tree and the focus as they are and calls no key callback
OnlyCancelNext ==
    /\ parent' = parent /\ children' = children /\ vars' = vars
    /\ focusElement' = focusElement
    /\ \A x \in Range(fired') : x.ev \in {"OnDragCancel", "E_DRAGCANCEL"}

\* the step calls the key callback of an element
KeyReachedNext == \E x \in Range(fired') : x.ev = "OnKey"

\* the topmost modal element: the last child of the modal root
TopModal == children[ModalRoot][Len(children[ModalRoot])]

\* C33: with a drag tracked an Escape key-down only runs the drag cancel: no
\* modal element is dismissed, the focus stays and no key callback runs.  With
\* no drag tracked and a modal element active it neither changes the focus nor
\* reaches the key callback; only with neither is the focus changed or the key
\* callback reached.
C33_EscapeDragThenModalThenFocus ==
    [][EscapeNext =>
         /\ dragElementsCount > 0 => OnlyCancelNext
         /\ (dragElementsCount = 0 /\ HasModalElement)
               => (focusElement' = focusElement /\ ~KeyReachedNext)]_vars_all

\* C33 as amended: with a drag tracked Escape only runs the drag cancel.  With
\* no drag tracked and a modal element active, Escape clears the focus when
\* the topmost modal element carries an origin (a popup) and otherwise leaves
\* the focus and makes the topmost modal element non-modal if it is a window;
\* it never reaches the key callback.  With neither, it clears the focus of a focused element
\* that is defocusable and otherwise reaches the key callback of the focused
\* element, if there is one.
C33_EscapeDragThenModalOrPopupThenFocus ==
    [][EscapeNext =>
         /\ dragElementsCount > 0 => OnlyCancelNext
         /\ (dragElementsCount = 0 /\ HasModalElement)
               => /\ ~KeyReachedNext
                  /\ IF vars[TopModal].origin # Null
                     THEN focusElement' = Null /\ parent' = parent
                     ELSE /\ focusElement' = focusElement
                          /\ IF IsWindow(TopModal) THEN parent'[TopModal] # ModalRoot
                             ELSE parent' = parent
         /\ (dragElementsCount = 0 /\ ~HasModalElement)
               => /\ parent' = parent
                  /\ IF focusElement = Null THEN focusElement' = Null /\ ~KeyReachedNext
                     ELSE IF FocusMode(focusElement) = "FM_FOCUSABLE_DEFOCUSABLE"
                     THEN focusElement' = Null /\ ~KeyReachedNext
                     ELSE focusElement' = focusElement /\ KeyReachedNext]_vars_all

\* Escape was pressed while a drag was tracked, a window was modal and an
\* element had the focus: the window is still modal and the focus stayed
C33_Witness ==
    /\ lastOp.op = "KeyDown" /\ lastOp.key = "KEY_ESCAPE"
    /\ dragElementsCount > 0
    /\ HasModalElement
    /\ focusElement # Null

----------------------------------------------------------------------------
(* Claims on a click over nothing (SpecClick).                             *)

\* the step is a mouse button press whose enabled-only hit test at the cursor
\* finds no element
MissNext ==
    /\ lastOp'.op = "MouseButtonDown"
    /\ GetElementAt(children, input.mousePos, TRUE).result = Null

\* the step clears the focus when no modal element is active and leaves it
\* when one is, and adds no entry to the drag registry
FocusClearedUnlessModalNext ==
    /\ focusElement' = (IF HasModalElement THEN focusElement ELSE Null)
    /\ \A j \in 1 .. Len(dragElements') : DragContains(dragElements, dragElements'[j].element)
    /\ dragElementsCount' <= dragElementsCount

\* C34: a click-begin that hits no enabled element clears the focus when no
\* modal element is active and leaves the focused element unchanged when one
\* is; in both cases no drag entry is created.
C34_MissClearsFocusUnlessModal ==
    [][MissNext => FocusClearedUnlessModalNext]_vars_all

\* C34 as amended: the same for a click-begin made while the cursor is visible;
\* while the cursor is hidden a click-begin runs no hit test and changes
\* neither the focus nor the drag registry.
C34_VisibleMissClearsFocusUnlessModal ==
    [][MissNext =>
         IF input.cursorVisible THEN FocusClearedUnlessModalNext
         ELSE /\ focusElement' = focusElement
              /\ \A j \in 1 .. Len(dragElements') :
                     DragContains(dragElements, dragElements'[j].element)]_vars_all

\* a press over nothing left the focus on W, which is modal
C34_Witness ==
    /\ lastOp.op = "MouseButtonDown"
    /\ Ev("E_UIMOUSECLICK", Null) \in Fired
    /\ HasModalElement
    /\ focusElement = "W"

----------------------------------------------------------------------------
(* Claims on the counters and the entries of the drag registry (SpecDrag,  *)
(* SpecTouch).                                                             *)

\* the entries of the registry whose drag begin is no longer pending
ConfirmedEntries == {i \in 1 .. Len(dragElements) : ~dragElements[i].dragBeginPending}

\* C35: between input events dragElementsCount_ is the number of entries of
\* the drag registry and dragConfirmedCount_ the number of its entries whose
\* begin is no longer pending; neither is negative.
C35_CountersMatchRegistry ==
    /\ dragElementsCount = Len(dragElements)
    /\ dragConfirmedCount = Cardinality(ConfirmedEntries)
    /\ dragElementsCount >= 0
    /\ dragConfirmedCount >= 0

\* a button release erased one entry and left another, which is ACTIVE
C35_Witness ==
    /\ lastOp.op = "MouseButtonUp"
    /\ dragElementsCount = 1
    /\ dragConfirmedCount = 1
    /\ input.mouseButtons # {}

\* the step delivers the drag end of element e
DragEndNext(e) == DragEventFired(Range(fired'), "E_DRAGEND", e)

\* the drag end the step delivers to e closes a gesture whose drag begin was
\* delivered: it comes once, after the begin, and the entry of e is erased, so
\* that no further drag end of the gesture can follow
ClosesBegunGestureNext(e) ==
    /\ history'.begins[e] >= 1
    /\ Len(EventsOf(fired', "E_DRAGEND", e)) = 1
    /\ ~DragContains(dragElements', e)

\* C36: a drag end is never delivered for a gesture whose drag begin has not
\* been delivered, and at most once per gesture, also when the dragged element
\* is disabled or hidden during the gesture.
C36_DragEndOnceAfterBegin ==
    [][\A e \in Elems : DragEndNext(e) => ClosesBegunGestureNext(e)]_vars_all

\* While the dragged element is enabled and visible, every drag end closes a
\* gesture whose drag begin was delivered.
DragEndOnceAfterBeginWhileDeliverable ==
    [][\A e \in Elems :
          (DragEndNext(e) /\ enabled[e] /\ visible[e]) => ClosesBegunGestureNext(e)]_vars_all

----------------------------------------------------------------------------
(* Claims on the query of the dragged elements (SpecConfirmed).             *)

\* the live elements whose entry in the registry is ACTIVE
LiveActive == {dragElements[i].element : i \in ConfirmedEntries} \cap {e \in Elems : Live(e)}

GetDragElementsRan == lastOp.op = "GetDragElements"

\* C37: GetDragElements returns exactly the live elements whose drag is
\* ACTIVE at the time of the call: none that is pending, erased or destroyed,
\* and every one whose drag begin was delivered, also when an earlier call
\* cached its result before a further drag was promoted.
C37_GetDragElementsReturnsLiveActive ==
    GetDragElementsRan => Range(lastOp.returned) = LiveActive

\* A call that finds the cache empty returns exactly the live elements whose
\* drag is ACTIVE, unless it erased an expired entry on its way.
UncachedReturnsLiveActive ==
    [][(GetDragElementsRan' /\ dragElementsConfirmed = <<>> /\ dragElements' = dragElements)
          => Range(lastOp'.returned) = LiveActive']_vars_all

\* a call answered from a cache that a later promotion has made incomplete
StaleAfterPromotion ==
    GetDragElementsRan /\ history.destroyed = {}
    /\ Range(lastOp.returned) # LiveActive

----------------------------------------------------------------------------
(* Claims on a hover over nothing (SpecDrag).                               *)

\* what the enabled-only hit-test at the mouse cursor returns
HoverHitResult == GetElementAt(children, input.mousePos, TRUE).result

\* the step is a frame update whose hover pass runs at the mouse cursor
HoverPassNext ==
    /\ lastOp'.op = "Update"
    /\ ~input.mouseGrabbed /\ ~input.usingTouchInput /\ input.cursorVisible

\* the hover pass of the step finds no element and no drag is tracked
HoverMissNext == HoverPassNext /\ dragElementsCount = 0 /\ HoverHitResult = Null

NoHoverCallbackNext ==
    \A e \in Elems \cup {Null} :
        EventsOf(fired', "OnHover", e) = <<>> /\ EventsOf(fired', "E_HOVERBEGIN", e) = <<>>

\* what enters the hover set in the step was returned by the hit-test
HoverSetFromHitTestNext == (hoveredElements' \ hoveredElements) \subseteq ({HoverHitResult} \ {Null})

\* C38: a hover pass that finds no element under the pointer while no drag is
\* tracked invokes no hover callback, dereferences no null element and adds
\* nothing to the hover set; only elements returned by an enabled-only
\* hit-test enter the hover set.
C38_HoverMissTouchesNothing ==
    [][/\ HoverMissNext => (~crashed' /\ NoHoverCallbackNext /\ hoveredElements' \subseteq hoveredElements)
       /\ HoverPassNext => HoverSetFromHitTestNext]_vars_all

\* A hover pass that finds no element while no drag is tracked and that the
\* process survives delivers no hover callback and adds nothing to the hover
\* set, and only the element the hit-test returned enters the hover set.
SurvivedHoverMissTouchesNothing ==
    [][/\ (HoverMissNext /\ ~crashed') => (NoHoverCallbackNext /\ hoveredElements' \subseteq hoveredElements)
       /\ HoverPassNext => HoverSetFromHitTestNext]_vars_all

----------------------------------------------------------------------------
(* Claims on the button count of a drag entry (SpecDrag, SpecTouch).        *)

\* C39: every entry of the drag registry has numDragButtons equal to the
\* number of buttons set in its dragButtons and at least 1, so that the
\* divisions of a position sum by the button count never divide by zero.
C39_ButtonCountMatchesButtons ==
    \A i \in 1 .. Len(dragElements) :
        /\ dragElements[i].numDragButtons = Cardinality(dragElements[i].dragButtons)
        /\ dragElements[i].numDragButtons >= 1

\* a second button has joined the drag of an element, whose entry counts two
C39_Witness ==
    \E i \in 1 .. Len(dragElements) :
        /\ Cardinality(dragElements[i].dragButtons) = 2
        /\ dragElements[i].numDragButtons = 2
        /\ lastOp.op \in {"MouseButtonDown", "TouchBegin"}

----------------------------------------------------------------------------
(* Claims on the termination of the tiled AddQuad (SpecQuad).               *)

\* the step is a call of the tiled AddQuad, with tiling, on a batch that has an element
TiledCallNext ==
    /\ lastOp'.op = "AddQuad"
    /\ lastOp'.variant = "tiled"
    /\ lastOp'.tiled
    /\ ~uiBatch.element.null

\* C40: the tiled AddQuad terminates for every input, also for a tile width
\* or a tile height of zero with a region of positive size: its row and
\* column loops finish after finitely many sub-quads and the call returns.
C40_TiledAddQuadTerminates ==
    [][TiledCallNext => ~crashed']_vars_all

\* The tiled AddQuad returns whenever the tile width and the tile height are
\* positive, and also when the region has no height, or no width with a
\* positive tile height.
TiledAddQuadTerminatesOnAdvancingTiles ==
    [][(TiledCallNext /\ ~TilingHangs(lastOp'.width, lastOp'.height,
                                      lastOp'.texWidth, lastOp'.texHeight)) => ~crashed']_vars_all

====
